---- MODULE Spec2Model ----
(***************************************************************************)
(* Tutoring administration app: students, sessions, the per-student        *)
(* ledger with its balance aggregate, and the WhatsApp reminder            *)
(* dispatcher.  The hosted database is modelled as tables (functions from  *)
(* row ids to rows); each handler of the client and each step of the       *)
(* serverless dispatcher is an action.                                     *)
(*                                                                         *)
(* The specifications share the tables:                                    *)
(*   SpecBalance   the ledger page and student deletion (balance claims)   *)
(*   Spec          the sessions page with handleComplete / handleCancel    *)
(*   SpecDispatch  overlapping invocations of send-whatsapp-reminders      *)
(*   SpecLayout    sign-in, the approval gate of Layout, the pending page  *)
(*   SpecUser      SpecLayout with the profile updates open to a user      *)
(*   SpecZoom      the sessions page of a user with Zoom keys              *)
(*   SpecForm      the ledger entry form with its image                    *)
(*   SpecSign      ledger amounts written by the form and by completions   *)
(*   SpecEdit      two browsers editing the same ledger entry              *)
(*   SpecFunctions send-contact-email and create-zoom-meeting requests     *)
(*   SpecRace      handleComplete calls of two tabs, request by request    *)
(***************************************************************************)
EXTENDS Integers, Sequences, FiniteSets, TLC

VARIABLES
    students,        \* table public.students: id -> row (deleted ids leave the domain)
    sessions,        \* table public.sessions: id -> row
    ledger_entries,  \* table public.ledger_entries: id -> row
    entrySeq,        \* number of ledger ids handed out so far (ids are never reused)
    sessionSeq,      \* number of session ids handed out so far
    chargedFor,      \* history: ledger id -> the session whose completion inserted it
    balances,        \* Ledger page state `balances`: student id -> displayed balance
    studentsView,    \* Sessions page state `students`: the active students it loaded
    sessionsView,    \* Sessions page state `sessions`: ids it shows as SCHEDULED
    lastComplete,    \* history: {} or {what the handleComplete call that just ran did}
    reminder_jobs,   \* table public.reminder_jobs: id -> row
    profiles,        \* table public.profiles: user id -> the WhatsApp columns
    env,             \* Deno.env of the deployment: the secrets the functions read
    clock,           \* the time
    inv,             \* calls in flight: instance of send-whatsapp-reminders -> position
                     \* (SpecRace: tab -> its handleComplete call)
    attempts,        \* history: what each invocation decided for each job it reached
    invoked,         \* number of invocations of send-whatsapp-reminders so far
    authSession,     \* the browser's auth session: {} or {the signed-in user id}
    storage,         \* sessionStorage of the tab: user id -> value of approval_<id>
    pathname,        \* location.pathname of the tab
    layout,          \* the mounted Layout component: its state and pending callbacks
    forms,           \* Ledger page of each browser: formData, editingEntry, request in flight
    uploaded,        \* history: the files ever sent to the ledger-images bucket
    lastSubmit,      \* history: {} or {what the handleSubmit or request served last did}
    applied          \* history: ledger id -> the entryData of the update applied to it last

NULL == "NULL"

dispatchVars == <<reminder_jobs, profiles, env, clock, inv, attempts, invoked>>

\* the browser tab outside the data pages
clientVars == <<authSession, storage, pathname, layout>>
formVars == <<forms, uploaded, lastSubmit, applied>>

\* ------------------------------------------------------------------------
\* DECIMAL(10,2).  A value is 100*d + c hundredths with 0 <= c <= 99, kept
\* as the pair (d, c) because the largest column value, 9999999999
\* hundredths, does not fit the model checker's integers.
\* ------------------------------------------------------------------------
Dec(d, c) == [d |-> d, c |-> c]

Zero == Dec(0, 0)

\* the SQL NULL of a numeric expression
SqlNull == [null |-> TRUE]

DecAdd(a, b) ==
    LET c == a.c + b.c
    IN  Dec(a.d + b.d + (c \div 100), c % 100)

DecNeg(a) == IF a.c = 0 THEN Dec(-a.d, 0) ELSE Dec(-a.d - 1, 100 - a.c)

DecIsPos(a) == a.d > 0 \/ (a.d = 0 /\ a.c > 0)

\* Hundredths -> DECIMAL, for values small enough to be held as one integer.
DecOfCents(n) == Dec(n \div 100, n % 100)

\* precision 10, scale 2: the absolute value must be below 10^8
NumericIntegerLimit == 100000000

FitsNumeric10_2(a) ==
    /\ a.d <= NumericIntegerLimit - 1
    /\ a.d >= -NumericIntegerLimit
    /\ ~(a.d = -NumericIntegerLimit /\ a.c = 0)

\* ------------------------------------------------------------------------
\* Row ids
\* ------------------------------------------------------------------------
StudentIds == {"s1", "s2"}

\* a well-formed uuid that no students row ever had
UnknownStudent == "s0"

MaxEntries == 3

MaxSessions == 1

\* ledger ids the sessions specification hands out
MaxCharges == 2

SessionIds == 1..MaxSessions

\* ------------------------------------------------------------------------
\* get_student_balance
\* ------------------------------------------------------------------------
RECURSIVE SumAmounts(_, _)
\* SUM(amount) over the rows with the given ids (numeric addition is exact)
SumAmounts(rows, table) ==
    IF rows = {} THEN Zero
    ELSE LET e == CHOOSE x \in rows : TRUE
         IN  DecAdd(table[e].amount, SumAmounts(rows \ {e}, table))

\* SUM over no row is NULL; COALESCE(.., 0) turns it into 0.
CoalescedSum(student_uuid, table) ==
    LET rows == {e \in DOMAIN table : table[e].student_id = student_uuid}
        sum  == IF rows = {} THEN SqlNull ELSE SumAmounts(rows, table)
    IN  IF sum = SqlNull THEN Zero ELSE sum

\* The plpgsql version: SELECT .. INTO balance, a variable declared
\* DECIMAL(10,2); the assignment raises "numeric field overflow" when the
\* sum does not fit.  The rpc answers {data, error}.
BalanceOf(student_uuid, table) ==
    LET sum == CoalescedSum(student_uuid, table)
    IN  IF FitsNumeric10_2(sum)
        THEN [error |-> FALSE, data |-> sum]
        ELSE [error |-> TRUE, data |-> SqlNull]

get_student_balance(student_uuid) == BalanceOf(student_uuid, ledger_entries)

\* Ledger page, loadBalances: one rpc per students row; an error shows as 0.
LoadBalances(studentTable, table) ==
    [s \in DOMAIN studentTable |->
        LET r == BalanceOf(s, table)
        IN  IF r.error THEN Zero ELSE r.data]

\* ------------------------------------------------------------------------
\* Ledger page: the entry form
\* ------------------------------------------------------------------------
\* not a DECIMAL: a record of another shape, so that it compares unequal to all
NaN == [nan |-> TRUE]

\* parseFloat of what the amount field holds
parseFloat(text) ==
    CASE text = "10"       -> Dec(10, 0)
      [] text = "8.33"     -> Dec(8, 33)
      [] text = "37.5"     -> Dec(37, 50)
      [] text = "100"      -> Dec(100, 0)
      [] text = "60000000" -> Dec(60000000, 0)
      [] text = "0"        -> Zero
      [] text = "-5"       -> Dec(-5, 0)
      [] OTHER             -> NaN

FinalAmount_Unsigned(type, amountValue, isAdjustmentNegative) == amountValue

\* handleSubmit: "Apply sign based on ledger type"
FinalAmount(type, amountValue, isAdjustmentNegative) ==
    CASE type = "SESSION_CHARGE"       -> DecNeg(amountValue)
      [] type = "PAYMENT_CONFIRMATION" -> amountValue
      [] type = "ADJUSTMENT"           ->
            IF isAdjustmentNegative THEN DecNeg(amountValue) ELSE amountValue
      [] OTHER                         -> amountValue

\* The form contents the balance specification submits.
FormFills ==
    { [type |-> "PAYMENT_CONFIRMATION", amount |-> "100", isAdjustmentNegative |-> FALSE],
      [type |-> "SESSION_CHARGE", amount |-> "37.5", isAdjustmentNegative |-> FALSE],
      [type |-> "ADJUSTMENT", amount |-> "10", isAdjustmentNegative |-> TRUE],
      [type |-> "ADJUSTMENT", amount |-> "10", isAdjustmentNegative |-> FALSE],
      [type |-> "PAYMENT_CONFIRMATION", amount |-> "60000000", isAdjustmentNegative |-> FALSE],
      [type |-> "PAYMENT_CONFIRMATION", amount |-> "0", isAdjustmentNegative |-> FALSE],
      [type |-> "SESSION_CHARGE", amount |-> "abc", isAdjustmentNegative |-> FALSE] }

InsertAccepted_UniqueReference(row) ==
    /\ row.student_id \in DOMAIN students
    /\ FitsNumeric10_2(row.amount)
    /\ "reference" \in DOMAIN row =>
          \A e \in DOMAIN ledger_entries : ledger_entries[e].reference # row.reference

\* INSERT INTO ledger_entries: the foreign key and the column type decide.
InsertAccepted(row) ==
    /\ row.student_id \in DOMAIN students
    /\ FitsNumeric10_2(row.amount)

\* How handleSubmit ends: "invalid" (rejected before any request), "error"
\* (the insert or update returned an error) or "ok".
SubmitOutcome(student_id, fill) ==
    LET amountValue == parseFloat(fill.amount)
    IN  IF amountValue = NaN \/ ~DecIsPos(amountValue) THEN "invalid"
        ELSE IF ~InsertAccepted([student_id |-> student_id,
                     amount |-> FinalAmount(fill.type, amountValue, fill.isAdjustmentNegative)])
        THEN "error"
        ELSE "ok"

\* entryData of handleSubmit
EntryData(student_id, fill, reference) ==
    [student_id |-> student_id,
     type       |-> fill.type,
     amount     |-> FinalAmount(fill.type, parseFloat(fill.amount), fill.isAdjustmentNegative),
     reference  |-> IF reference = "" THEN NULL ELSE reference]

\* Ledger page, handleSubmit: validate, sign the amount, then update the
\* entry being edited or insert a new one, and reload entries and balances.
\* editingEntry is {} (null: create) or {id} (the entry opened by handleEdit).
LedgerHandleSubmit(editingEntry, student_id, fill, reference) ==
    LET outcome == SubmitOutcome(student_id, fill)
        row     == EntryData(student_id, fill, reference)
        after   == IF outcome # "ok" THEN ledger_entries
                   ELSE IF editingEntry = {} THEN (entrySeq + 1) :> row @@ ledger_entries
                   ELSE [e \in DOMAIN ledger_entries |->       \* update .. eq("id", ..)
                            IF e \in editingEntry THEN row ELSE ledger_entries[e]]
    IN  /\ editingEntry = {} => entrySeq < MaxEntries
        /\ ledger_entries' = after
        /\ entrySeq' = IF outcome = "ok" /\ editingEntry = {} THEN entrySeq + 1 ELSE entrySeq
        /\ balances' = IF outcome = "ok" THEN LoadBalances(students, after) ELSE balances
        /\ chargedFor' = chargedFor
        /\ lastComplete' = {}
        /\ UNCHANGED <<dispatchVars, clientVars, formVars>>
        /\ UNCHANGED <<students, sessions, sessionSeq, studentsView, sessionsView>>

\* Ledger page mount (useEffect): loadBalances
LedgerMount ==
    /\ balances' = LoadBalances(students, ledger_entries)
    /\ lastComplete' = {}
    /\ UNCHANGED <<dispatchVars, clientVars, formVars>>
    /\ UNCHANGED <<students, sessions, ledger_entries, entrySeq, sessionSeq, chargedFor,
                   studentsView, sessionsView>>

\* ------------------------------------------------------------------------
\* Students page
\* ------------------------------------------------------------------------
\* ON DELETE CASCADE from students to sessions and to ledger_entries
Restrict(table, keep) == [k \in keep |-> table[k]]

SessionsAfterDelete(id) ==
    Restrict(sessions, {x \in DOMAIN sessions : sessions[x].student_id # id})

\* the ledger_entries foreign key without ON DELETE CASCADE
LedgerAfterDelete_NoCascade(id) == ledger_entries

LedgerAfterDelete(id) ==
    Restrict(ledger_entries, {e \in DOMAIN ledger_entries : ledger_entries[e].student_id # id})

\* handleDelete: delete the students row; the cascade removes its sessions
\* and ledger entries; loadStudents reloads the Students page only.
StudentsHandleDelete(id) ==
    /\ id \in DOMAIN students
    /\ students' = Restrict(students, DOMAIN students \ {id})
    /\ sessions' = SessionsAfterDelete(id)
    /\ ledger_entries' = LedgerAfterDelete(id)
    /\ lastComplete' = {}
    /\ reminder_jobs' = Restrict(reminder_jobs, {j \in DOMAIN reminder_jobs :
                            reminder_jobs[j].session_id \in DOMAIN SessionsAfterDelete(id)})
    /\ UNCHANGED <<profiles, env, clock, inv, attempts, invoked, clientVars, formVars>>
    /\ UNCHANGED <<entrySeq, sessionSeq, chargedFor, balances, studentsView, sessionsView>>

\* handleSubmit (edit) and handleToggleStatus: update .. eq("id", ..)
StudentsHandleSubmit(id, price_per_hour) ==
    /\ id \in DOMAIN students
    /\ price_per_hour > 0
    /\ students' = [students EXCEPT ![id].price_per_hour = price_per_hour]
    /\ lastComplete' = {}
    /\ UNCHANGED <<dispatchVars, clientVars, formVars>>
    /\ UNCHANGED <<sessions, ledger_entries, entrySeq, sessionSeq, chargedFor, balances,
                   studentsView, sessionsView>>

StudentsHandleToggleStatus(id) ==
    /\ id \in DOMAIN students
    /\ students' = [students EXCEPT ![id].is_active = ~students[id].is_active]
    /\ lastComplete' = {}
    /\ UNCHANGED <<dispatchVars, clientVars, formVars>>
    /\ UNCHANGED <<sessions, ledger_entries, entrySeq, sessionSeq, chargedFor, balances,
                   studentsView, sessionsView>>

\* ------------------------------------------------------------------------
\* Sessions page
\* ------------------------------------------------------------------------
\* loadStudents: the active students, with their price
ActiveStudents(studentTable) ==
    [s \in {x \in DOMAIN studentTable : studentTable[x].is_active} |->
        studentTable[s].price_per_hour]

\* loadSessions, kept for the rows the page shows with the complete and
\* cancel buttons (status SCHEDULED); the other rows offer no action.
ScheduledRows(sessionTable) ==
    [x \in {y \in DOMAIN sessionTable : sessionTable[y].status = "SCHEDULED"} |->
        [student_id |-> sessionTable[x].student_id, duration |-> sessionTable[x].duration]]

\* A sessions row as inserted: status SCHEDULED, the scheduled window (kept
\* as its length in minutes), the creator, and the column defaults.
SessionRow(student_id, duration, created_by) ==
    [student_id |-> student_id,
     status     |-> "SCHEDULED",
     duration   |-> duration,
     created_by |-> created_by,
     whatsapp_notification_status |-> "NONE",
     whatsapp_last_error |-> NULL]

\* Browser tabs showing the Sessions page.  "kept" is a tab that stays open:
\* its lists are what it last loaded.  "opened" is a tab opened for the one
\* action: its lists are loaded from the tables as the action starts.
Tabs == {"kept", "opened"}

SessionsOf(tab) == IF tab = "kept" THEN sessionsView ELSE ScheduledRows(sessions)

StudentsOf(tab) == IF tab = "kept" THEN studentsView ELSE ActiveStudents(students)

\* mount (useEffect): loadSessions, loadStudents
SessionsMount ==
    /\ sessionsView' = ScheduledRows(sessions)
    /\ studentsView' = ActiveStudents(students)
    /\ lastComplete' = {}
    /\ UNCHANGED <<dispatchVars, clientVars, formVars>>
    /\ UNCHANGED <<students, sessions, ledger_entries, entrySeq, sessionSeq, chargedFor,
                   balances>>

\* handleSubmit: a student picked from the loaded list, an end after the
\* start (duration in minutes); insert with status SCHEDULED, loadSessions.
SessionsHandleSubmit(tab, student_id, duration) ==
    /\ sessionSeq < MaxSessions
    /\ student_id \in DOMAIN StudentsOf(tab)
    /\ duration > 0
    /\ LET inserted == student_id \in DOMAIN students       \* the foreign key
           after == IF inserted
                    THEN (sessionSeq + 1) :> SessionRow(student_id, duration, NULL) @@ sessions
                    ELSE sessions
       IN  /\ sessions' = after
           /\ sessionSeq' = IF inserted THEN sessionSeq + 1 ELSE sessionSeq
           /\ sessionsView' = IF inserted /\ tab = "kept" THEN ScheduledRows(after)
                              ELSE sessionsView
    /\ lastComplete' = {}
    /\ UNCHANGED <<dispatchVars, clientVars, formVars>>
    /\ UNCHANGED <<students, ledger_entries, entrySeq, chargedFor, balances, studentsView>>

\* `Session ${sessionId} on ${sessionDate}`
SessionReference(sessionId) == "Session " \o ToString(sessionId) \o " on date"

\* .eq("student_id", ..).eq("type", "SESSION_CHARGE").like("reference",
\* `%Session ${sessionId}%`): the only references holding that text are the
\* ones handleComplete wrote.
ExistingEntries(student_id, sessionId) ==
    {e \in DOMAIN ledger_entries :
        /\ ledger_entries[e].student_id = student_id
        /\ ledger_entries[e].type = "SESSION_CHARGE"
        /\ ledger_entries[e].reference = SessionReference(sessionId)}

\* -(durationHours * price_per_hour) as the DECIMAL(10,2) column stores it:
\* rounded to the hundredth, half away from zero.  Prices are hundredths,
\* durations minutes.
ChargeAmount(duration, price_per_hour) ==
    DecNeg(DecOfCents((2 * duration * price_per_hour + 60) \div 120))

\* update .. set status .. eq("id", sessionId)
SessionsWithStatus(sessionId, status) ==
    [x \in DOMAIN sessions |->
        IF x = sessionId THEN [sessions[x] EXCEPT !.status = status] ELSE sessions[x]]

\* handleComplete.  fault names the request that returns an error, if any.
SessionsHandleComplete(tab, sessionId, fault) ==
    /\ sessionId \in DOMAIN SessionsOf(tab)                   \* sessions.find
    /\ LET session  == SessionsOf(tab)[sessionId]
           existing == ExistingEntries(session.student_id, sessionId)
           updated  == fault # "sessionError"
           afterSessions == IF updated THEN SessionsWithStatus(sessionId, "COMPLETED")
                            ELSE sessions
           found == session.student_id \in DOMAIN StudentsOf(tab)    \* students.find
           row == [student_id |-> session.student_id,
                   type       |-> "SESSION_CHARGE",
                   amount     |-> ChargeAmount(session.duration,
                                               StudentsOf(tab)[session.student_id]),
                   reference  |-> SessionReference(sessionId)]
           inserts == /\ updated
                      /\ existing = {}
                      /\ found
                      /\ fault # "ledgerError"
                      /\ InsertAccepted(row)
       IN  /\ inserts => entrySeq < MaxCharges
           /\ sessions' = afterSessions
           /\ ledger_entries' = IF inserts THEN (entrySeq + 1) :> row @@ ledger_entries
                                ELSE ledger_entries
           /\ entrySeq' = IF inserts THEN entrySeq + 1 ELSE entrySeq
           /\ chargedFor' = IF inserts THEN (entrySeq + 1) :> sessionId @@ chargedFor
                            ELSE chargedFor
           /\ sessionsView' = IF updated /\ tab = "kept" THEN ScheduledRows(afterSessions)
                              ELSE sessionsView
           /\ lastComplete' = {[sessionId |-> sessionId,
                                fault     |-> fault,
                                existed   |-> existing # {},
                                found     |-> found,
                                inserted  |-> IF inserts THEN {entrySeq + 1} ELSE {}]}
    /\ UNCHANGED <<students, sessionSeq, balances, studentsView>>
    /\ UNCHANGED <<dispatchVars, clientVars, formVars>>

\* handleCancel: update .. status CANCELED .. eq("id", ..), loadSessions
SessionsHandleCancel(tab, sessionId) ==
    /\ sessionId \in DOMAIN SessionsOf(tab)
    /\ sessions' = SessionsWithStatus(sessionId, "CANCELED")
    /\ sessionsView' = IF tab = "kept" THEN ScheduledRows(sessions') ELSE sessionsView
    /\ lastComplete' = {}
    /\ UNCHANGED <<dispatchVars, clientVars, formVars>>
    /\ UNCHANGED <<students, ledger_entries, entrySeq, sessionSeq, chargedFor, balances,
                   studentsView>>

vars == <<students, sessions, ledger_entries, entrySeq, sessionSeq, chargedFor, balances,
          studentsView, sessionsView, lastComplete, reminder_jobs, profiles, env, clock, inv,
          attempts, invoked, authSession, storage, pathname, layout, forms, uploaded,
          lastSubmit, applied>>

\* ------------------------------------------------------------------------
\* SpecBalance: two students, an empty ledger, then any sequence of ledger
\* form submissions (create and edit) and student deletions.
\* ------------------------------------------------------------------------
\* The data specifications run in a tab whose user is signed in and approved.
NoLayout ==
    /\ authSession = {"a"}
    /\ storage = <<>>
    /\ pathname = "/dashboard"
    /\ layout = <<>>

\* No ledger form is open outside the specification of the form itself.
NoForm ==
    /\ forms = <<>>
    /\ uploaded = {}
    /\ lastSubmit = {}
    /\ applied = <<>>

\* The ledger and sessions specifications leave the dispatcher out.
NoDispatcher ==
    /\ reminder_jobs = <<>>
    /\ profiles = <<>>
    /\ env = [phone_number_id |-> "", token |-> ""]
    /\ clock = 0
    /\ inv = <<>>
    /\ attempts = {}
    /\ invoked = 0

InitStudents ==
    [s \in StudentIds |->
        [price_per_hour |-> 2500, is_active |-> TRUE,
         phone_e164 |-> IF s = "s1" THEN "+15550001" ELSE ""]]

InitBalance ==
    /\ students = InitStudents
    /\ sessions = <<>>
    /\ ledger_entries = <<>>
    /\ entrySeq = 0
    /\ sessionSeq = 0
    /\ chargedFor = <<>>
    /\ balances = <<>>
    /\ studentsView = <<>>
    /\ sessionsView = <<>>
    /\ lastComplete = {}
    /\ NoDispatcher
    /\ NoLayout
    /\ NoForm

NextBalance ==
    \/ \E editingEntry \in {{}} \cup {{e} : e \in 1..entrySeq},
          s \in StudentIds, fill \in FormFills :
          LedgerHandleSubmit(editingEntry, s, fill, "")
    \/ LedgerMount
    \/ \E s \in StudentIds : StudentsHandleDelete(s)

SpecBalance == InitBalance /\ [][NextBalance]_vars

\* ------------------------------------------------------------------------
\* Spec: the Sessions page of one browser tab next to the Students and
\* Ledger pages of other tabs, so that the tab's loaded lists can be stale.
\* ------------------------------------------------------------------------
Durations == {20, 90}

Prices == {2500, 3000}

\* the student whose row the Students page edits while sessions are handled
EditedStudents == {"s1"}

Faults == {"none", "sessionError", "ledgerError"}

\* What an edit of a ledger entry submits: the form as handleEdit filled it
\* (type, reference), with a student, an amount and a type chosen by the user.
EditFills ==
    { [type |-> "SESSION_CHARGE", amount |-> "37.5", isAdjustmentNegative |-> FALSE] }

LedgerEdit(e, student_id, fill) ==
    /\ e \in DOMAIN ledger_entries
    /\ LedgerHandleSubmit({e}, student_id, fill,
                          IF ledger_entries[e].reference = NULL THEN ""
                          ELSE ledger_entries[e].reference)

Init ==
    /\ students = InitStudents
    /\ sessions = <<>>
    /\ ledger_entries = <<>>
    /\ entrySeq = 0
    /\ sessionSeq = 0
    /\ chargedFor = <<>>
    /\ balances = <<>>
    /\ studentsView = ActiveStudents(InitStudents)
    /\ sessionsView = <<>>
    /\ lastComplete = {}
    /\ NoDispatcher
    /\ NoLayout
    /\ NoForm

Next ==
    \/ SessionsMount
    \/ \E tab \in Tabs, s \in StudentIds, d \in Durations : SessionsHandleSubmit(tab, s, d)
    \/ \E tab \in Tabs, x \in SessionIds, fault \in Faults :
          SessionsHandleComplete(tab, x, fault)
    \/ \E tab \in Tabs, x \in SessionIds : SessionsHandleCancel(tab, x)
    \/ \E s \in EditedStudents, p \in Prices : StudentsHandleSubmit(s, p)
    \/ \E s \in EditedStudents : StudentsHandleToggleStatus(s)
    \/ \E e \in 1..MaxCharges, s \in StudentIds, fill \in EditFills : LedgerEdit(e, s, fill)

Spec == Init /\ [][Next]_vars

\* ------------------------------------------------------------------------
\* send-whatsapp-reminders (the serverless dispatcher, service role)
\* ------------------------------------------------------------------------
MaxInvocations == 2

MaxTime == 1

\* The instances of the function that can run at the same time.
Instances == {"a", "b"}

\* What the messaging provider answers to the POST: resp.ok, resp.status and
\* the body text.
Responses ==
    { [ok |-> TRUE,  status |-> 200, text |-> "{ \"messages\": [] }"],
      [ok |-> FALSE, status |-> 400, text |-> "{ \"error\": 190 }"],
      [ok |-> FALSE, status |-> 502, text |-> "Bad Gateway"] }

\* fetch either resolves to a response or throws (a network error)
Throws == [ok |-> FALSE, status |-> 0, text |-> "fetch failed"]

FetchOutcomes == Responses \cup {Throws}

\* JSON.stringify(JSON.parse(errText)), or of {message: errText, status:
\* resp.status} when the body is not JSON
StringifiedError(resp) ==
    CASE resp.text = "{ \"error\": 190 }"   -> "{\"error\":190}"
      [] resp.text = "{ \"messages\": [] }" -> "{\"messages\":[]}"
      [] OTHER -> "{\"message\":\"" \o resp.text \o "\",\"status\":" \o ToString(resp.status) \o "}"

\* the select without .lte("scheduled_for", now) and without the channel filter
DueJobs_AllPending(nowIso) ==
    {j \in DOMAIN reminder_jobs : reminder_jobs[j].status = "PENDING"}

\* the select without .eq("status", "PENDING")
DueJobs_AnyStatus(nowIso) ==
    {j \in DOMAIN reminder_jobs :
        /\ reminder_jobs[j].channel = "WHATSAPP"
        /\ reminder_jobs[j].scheduled_for <= nowIso}

\* .eq("channel", "WHATSAPP").eq("status", "PENDING").lte("scheduled_for", now)
DueJobs(nowIso) ==
    {j \in DOMAIN reminder_jobs :
        /\ reminder_jobs[j].channel = "WHATSAPP"
        /\ reminder_jobs[j].status = "PENDING"
        /\ reminder_jobs[j].scheduled_for <= nowIso}

\* One selected row with its embedded sessions row and that row's embedded
\* students row, as read by the select.  An embedded row that is missing
\* (null) is the empty set.
JobRow(j) ==
    [id         |-> j,
     session_id |-> reminder_jobs[j].session_id,
     sessions   |->
        {[id         |-> x,
          created_by |-> sessions[x].created_by,
          students   |-> {[phone_e164 |-> students[s].phone_e164] :
                             s \in {sessions[x].student_id} \cap DOMAIN students}] :
            x \in {reminder_jobs[j].session_id} \cap DOMAIN sessions}]

\* The select is a read: it leaves the selected rows as they are.
JobsAfterSelect_Claimed(ids) ==
    [j \in DOMAIN reminder_jobs |->
        IF j \in ids THEN [reminder_jobs[j] EXCEPT !.status = "IN_PROGRESS"]
        ELSE reminder_jobs[j]]

JobsAfterSelect(ids) == reminder_jobs

\* serve, up to the loop: select the due jobs; a select error answers 500,
\* no job answers {processed: 0}.
Invoke(i, jobsError) ==
    /\ inv[i].pc \in {"idle", "done", "error"}
    /\ invoked < MaxInvocations
    /\ invoked' = invoked + 1
    /\ LET ids == IF jobsError THEN {} ELSE DueJobs(clock)
       IN  /\ inv' = [inv EXCEPT ![i] =
                        [pc       |-> IF jobsError THEN "error"
                                      ELSE IF ids = {} THEN "done" ELSE "loop",
                         selected |-> ids,
                         todo     |-> {JobRow(j) : j \in ids},
                         cur      |-> {}]]
           /\ reminder_jobs' = JobsAfterSelect(ids)
    /\ UNCHANGED <<formVars, clientVars, students, sessions, ledger_entries, entrySeq, sessionSeq, chargedFor,
                   balances, studentsView, sessionsView, lastComplete, profiles, env, clock,
                   attempts>>

\* "Resolve WhatsApp credentials: per-user from profiles or fall back to env"
ProfileOf(created_by) ==
    IF created_by # NULL /\ created_by \in DOMAIN profiles
    THEN {profiles[created_by]} ELSE {}

ResolveCredentials_EitherColumn(created_by) ==
    IF \E profile \in ProfileOf(created_by) :
          profile.whatsapp_phone_number_id # "" \/ profile.whatsapp_token # ""
    THEN LET profile == profiles[created_by]
         IN  [phoneNumberId |-> profile.whatsapp_phone_number_id,
              token         |-> profile.whatsapp_token]
    ELSE [phoneNumberId |-> env.phone_number_id, token |-> env.token]

ResolveCredentials(created_by) ==
    IF \E profile \in ProfileOf(created_by) :
          profile.whatsapp_phone_number_id # "" /\ profile.whatsapp_token # ""
    THEN LET profile == profiles[created_by]
         IN  [phoneNumberId |-> profile.whatsapp_phone_number_id,
              token         |-> profile.whatsapp_token]
    ELSE [phoneNumberId |-> env.phone_number_id, token |-> env.token]

\* !toPhone
NoPhone_Never(student) == FALSE

NoPhone(student) == student.phone_e164 = "" \/ student.phone_e164 = NULL

\* What the loop body does with a job before any request to the provider:
\* the error it records, or "send".
Decision(job) ==
    IF job.sessions = {} THEN "Session not found"
    ELSE LET sess == CHOOSE s \in job.sessions : TRUE
         IN  IF sess.students = {} THEN "Student not found"
             ELSE LET student == CHOOSE s \in sess.students : TRUE
                      creds   == ResolveCredentials(sess.created_by)
                  IN  IF NoPhone(student) THEN "Missing student phone"
                      ELSE IF creds.phoneNumberId = "" \/ creds.token = ""
                           THEN "Missing WhatsApp credentials"
                           ELSE "send"

CredentialsFor(job) ==
    IF job.sessions = {} THEN [phoneNumberId |-> "", token |-> ""]
    ELSE ResolveCredentials((CHOOSE s \in job.sessions : TRUE).created_by)

\* update({status, last_error}).eq("id", job.id) on reminder_jobs
JobsWith(id, status, last_error) ==
    [j \in DOMAIN reminder_jobs |->
        IF j = id THEN [reminder_jobs[j] EXCEPT !.status = status, !.last_error = last_error]
        ELSE reminder_jobs[j]]

\* update({whatsapp_notification_status, whatsapp_last_error}).eq("id", sess.id)
SessionsWithWhatsapp(id, status, last_error) ==
    [x \in DOMAIN sessions |->
        IF x = id THEN [sessions[x] EXCEPT !.whatsapp_notification_status = status,
                                           !.whatsapp_last_error = last_error]
        ELSE sessions[x]]

\* The status and last_error written after the POST returned a response.
JobOutcome_AlwaysSent(resp) == [status |-> "SENT", last_error |-> NULL]

JobOutcome(resp) ==
    IF resp.ok THEN [status |-> "SENT", last_error |-> NULL]
    ELSE [status |-> "FAILED", last_error |-> StringifiedError(resp)]

\* One pass of the loop body up to the first write: a job that cannot be
\* sent is marked FAILED and the loop continues; otherwise the message is
\* POSTed.  A fetch that throws leaves the loop for the catch (answer 500).
ProcessJob(i, job, outcome) ==
    /\ inv[i].pc = "loop"
    /\ job \in inv[i].todo
    /\ LET decision == Decision(job)
           creds    == CredentialsFor(job)
       IN  IF decision # "send"
           THEN /\ outcome = Throws                       \* no request: one step
                /\ reminder_jobs' = JobsWith(job.id, "FAILED", decision)
                /\ inv' = [inv EXCEPT ![i].todo = @ \ {job}]
                /\ attempts' = attempts \cup
                      {[job |-> job.id, kind |-> decision,
                        phoneNumberId |-> "", token |-> ""]}
           ELSE /\ reminder_jobs' = reminder_jobs
                /\ inv' = [inv EXCEPT ![i].todo = @ \ {job},
                                      ![i].pc = IF outcome = Throws THEN "error"
                                                ELSE "updateJob",
                                      ![i].cur = {[job |-> job, resp |-> outcome]}]
                /\ attempts' = attempts \cup
                      {[job |-> job.id, kind |-> "post",
                        phoneNumberId |-> creds.phoneNumberId, token |-> creds.token]}
    /\ UNCHANGED <<formVars, clientVars, students, sessions, ledger_entries, entrySeq, sessionSeq, chargedFor,
                   balances, studentsView, sessionsView, lastComplete, profiles, env, clock,
                   invoked>>

\* after the response: the update of the reminder_jobs row
UpdateJob(i) ==
    /\ inv[i].pc = "updateJob"
    /\ \E c \in inv[i].cur :
          reminder_jobs' = JobsWith(c.job.id, JobOutcome(c.resp).status,
                                    JobOutcome(c.resp).last_error)
    /\ inv' = [inv EXCEPT ![i].pc = "updateSession"]
    /\ UNCHANGED <<formVars, clientVars, students, sessions, ledger_entries, entrySeq, sessionSeq, chargedFor,
                   balances, studentsView, sessionsView, lastComplete, profiles, env, clock,
                   attempts, invoked>>

\* then the update of the parent sessions row ("last attempt status")
UpdateSession(i) ==
    /\ inv[i].pc = "updateSession"
    /\ \E c \in inv[i].cur :
          sessions' = SessionsWithWhatsapp(c.job.session_id, JobOutcome(c.resp).status,
                                           JobOutcome(c.resp).last_error)
    /\ inv' = [inv EXCEPT ![i].pc = "loop", ![i].cur = {}]
    /\ UNCHANGED <<formVars, clientVars, students, ledger_entries, entrySeq, sessionSeq, chargedFor, balances,
                   studentsView, sessionsView, lastComplete, reminder_jobs, profiles, env,
                   clock, attempts, invoked>>

\* the loop is over: answer {processed: jobs.length}
Finish(i) ==
    /\ inv[i].pc = "loop"
    /\ inv[i].todo = {}
    /\ inv' = [inv EXCEPT ![i].pc = "done"]
    /\ UNCHANGED <<formVars, clientVars, students, sessions, ledger_entries, entrySeq, sessionSeq, chargedFor,
                   balances, studentsView, sessionsView, lastComplete, reminder_jobs,
                   profiles, env, clock, attempts, invoked>>

\* time passes
Tick ==
    /\ clock < MaxTime
    /\ clock' = clock + 1
    /\ UNCHANGED <<formVars, clientVars, students, sessions, ledger_entries, entrySeq, sessionSeq, chargedFor,
                   balances, studentsView, sessionsView, lastComplete, reminder_jobs,
                   profiles, env, inv, attempts, invoked>>

\* ------------------------------------------------------------------------
\* SpecDispatch: three sessions with reminder jobs, any WhatsApp settings of
\* the creator and of the deployment, and invocations that may overlap.
\* ------------------------------------------------------------------------
CredentialPairs ==
    { [id |-> "111", token |-> "tokA"], [id |-> "111", token |-> ""], [id |-> "", token |-> ""] }

ReminderJob(session_id, scheduled_for, channel) ==
    [session_id |-> session_id, scheduled_for |-> scheduled_for, status |-> "PENDING",
     channel |-> channel, last_error |-> NULL]

InitDispatch ==
    /\ students = InitStudents
    /\ sessions = <<SessionRow("s1", 90, "u1"), SessionRow("s2", 90, "u1"),
                    SessionRow("s1", 90, NULL)>>
    /\ reminder_jobs = <<ReminderJob(1, 0, "WHATSAPP"), ReminderJob(2, 0, "WHATSAPP"),
                         ReminderJob(3, 1, "WHATSAPP"), ReminderJob(1, 0, "EMAIL")>>
    /\ \E p \in CredentialPairs :
          profiles = [u \in {"u1"} |->
                        [whatsapp_phone_number_id |-> p.id, whatsapp_token |-> p.token]]
    /\ \E p \in CredentialPairs :
          env = [phone_number_id |-> IF p.id = "" THEN "" ELSE "999",
                 token |-> IF p.token = "" THEN "" ELSE "tokEnv"]
    /\ clock = 0
    /\ inv = [i \in Instances |->
                [pc |-> "idle", selected |-> {}, todo |-> {}, cur |-> {}]]
    /\ attempts = {}
    /\ invoked = 0
    /\ ledger_entries = <<>>
    /\ entrySeq = 0
    /\ sessionSeq = 3
    /\ chargedFor = <<>>
    /\ balances = <<>>
    /\ studentsView = <<>>
    /\ sessionsView = <<>>
    /\ lastComplete = {}
    /\ NoLayout
    /\ NoForm

NextDispatch ==
    \/ \E i \in Instances, jobsError \in BOOLEAN : Invoke(i, jobsError)
    \/ \E i \in Instances, outcome \in FetchOutcomes :
          \E job \in inv[i].todo : ProcessJob(i, job, outcome)
    \/ \E i \in Instances : UpdateJob(i)
    \/ \E i \in Instances : UpdateSession(i)
    \/ \E i \in Instances : Finish(i)
    \/ Tick

SpecDispatch == InitDispatch /\ [][NextDispatch]_vars

\* ------------------------------------------------------------------------
\* Accounts, approval and the Layout that wraps every authenticated page
\* ------------------------------------------------------------------------
Users == {"a", "b"}

\* handle_new_user: the profiles row of a new account
NewProfile ==
    [is_approved |-> FALSE, whatsapp_phone_number_id |-> "", whatsapp_token |-> ""]

\* getApprovalFromStorage: "null" when the key is absent, else the stored text
getApprovalFromStorage(store, userId) == store[userId]

\* setApprovalInStorage: approved.toString()
setApprovalInStorage(store, userId, approved) ==
    [store EXCEPT ![userId] = IF approved THEN "true" ELSE "false"]

\* hasAnyCachedApproval: some approval_* key of the tab holds "true"
hasAnyCachedApproval(store) == \E k \in DOMAIN store : store[k] = "true"

\* No Layout is mounted (the auth and pending-approval pages have none).
Unmounted ==
    [mounted |-> FALSE, user |-> {}, isApproved |-> "null",
     hasEverLoadedApproval |-> FALSE, hasCheckedApproval |-> FALSE,
     initApproval |-> FALSE, getSession |-> FALSE, queries |-> {}]

\* A page inside Layout is rendered for the first time: state as declared,
\* the effects run; initApproval and the mount effect each wait for
\* getSession; the restore effect sets isApproved from any cached approval.
Mounted(store) ==
    [mounted |-> TRUE, user |-> {},
     isApproved |-> IF hasAnyCachedApproval(store) THEN "true" ELSE "null",
     hasEverLoadedApproval |-> hasAnyCachedApproval(store),
     hasCheckedApproval |-> FALSE,
     initApproval |-> TRUE, getSession |-> TRUE, queries |-> {}]

\* The pages of the router: the auth page, the pending-approval page and
\* one page wrapped in Layout.
Paths == {"/auth", "/pending-approval", "/dashboard"}

LayoutAt(path, store) == IF path = "/dashboard" THEN Mounted(store) ELSE Unmounted

\* shouldShowLoading of the render
shouldShowLoading ==
    /\ ~layout.hasEverLoadedApproval
    /\ layout.isApproved = "null"
    /\ ~hasAnyCachedApproval(storage)

\* The render reaches the final return: the page content (children) is shown.
RendersChildren ==
    /\ layout.mounted
    /\ pathname \notin {"/pending-approval", "/auth"}
    /\ ~shouldShowLoading
    /\ layout.isApproved = "true"

\* `user` as the auth listener sees it: the value captured when the effect
\* ran at mount, which is the initial state null.
ListenerUser == {}

dataVars == <<students, sessions, ledger_entries, entrySeq, sessionSeq, chargedFor, balances,
              studentsView, sessionsView, lastComplete>>

jobVars == <<reminder_jobs, env, clock, inv, attempts, invoked>>

\* Auth page, handleSignUp: auth.users gets a row, its trigger inserts the profile
AuthHandleSignUp(u) ==
    /\ pathname = "/auth"
    /\ u \notin DOMAIN profiles
    /\ profiles' = u :> NewProfile @@ profiles
    /\ UNCHANGED <<formVars, dataVars, jobVars, clientVars>>

\* Auth page, handleSignIn: signInWithPassword, then navigate("/dashboard")
AuthHandleSignIn(u) ==
    /\ pathname = "/auth"
    /\ authSession = {}
    /\ u \in DOMAIN profiles
    /\ authSession' = {u}
    /\ pathname' = "/dashboard"
    /\ layout' = Mounted(storage)
    /\ UNCHANGED <<formVars, dataVars, jobVars, profiles, storage>>

\* The tab loads a URL (typed or reloaded).  The auth page sends a signed-in
\* user on to /dashboard.
PageLoad(path) ==
    LET to == IF path = "/auth" /\ authSession # {} THEN "/dashboard" ELSE path
    IN  /\ pathname' = to
        /\ layout' = LayoutAt(to, storage)
        /\ UNCHANGED <<formVars, dataVars, jobVars, profiles, authSession, storage>>

\* initApproval: after getSession, take the user's cached approval if any
InitApprovalResolve ==
    /\ layout.mounted
    /\ layout.initApproval
    /\ layout' =
         IF \E u \in authSession : getApprovalFromStorage(storage, u) # "null"
         THEN LET u == CHOOSE u \in authSession : TRUE
              IN  [layout EXCEPT !.initApproval = FALSE,
                                 !.isApproved = getApprovalFromStorage(storage, u),
                                 !.hasEverLoadedApproval = TRUE]
         ELSE [layout EXCEPT !.initApproval = FALSE]
    /\ UNCHANGED <<formVars, dataVars, jobVars, profiles, authSession, storage, pathname>>

\* What the mount effect and the auth listener do with a session of user u:
\* use the cached approval if there is one, else checkApproval (a query
\* unless hasCheckedApproval).  Gives the next layout and pathname.
WithSession(lay, u, resetCheck) ==
    LET cached == getApprovalFromStorage(storage, u)
        seen   == [lay EXCEPT !.user = {u}]
    IN  IF cached # "null"
        THEN IF cached = "false" /\ pathname # "/pending-approval"
             THEN [layout |-> Unmounted, pathname |-> "/pending-approval"]
             ELSE [layout |-> [seen EXCEPT !.isApproved = cached,
                                           !.hasEverLoadedApproval = TRUE,
                                           !.hasCheckedApproval = TRUE],
                   pathname |-> pathname]
        ELSE IF seen.hasCheckedApproval /\ ~resetCheck
             THEN [layout |-> seen, pathname |-> pathname]
             ELSE [layout |-> [seen EXCEPT !.hasCheckedApproval = FALSE,
                                           !.queries = @ \cup {u}],
                   pathname |-> pathname]

\* mount effect: supabase.auth.getSession().then(...)
GetSessionResolve ==
    /\ layout.mounted
    /\ layout.getSession
    /\ LET lay == [layout EXCEPT !.getSession = FALSE]
       IN  IF authSession = {}
           THEN /\ pathname' = "/auth"
                /\ layout' = Unmounted
           ELSE LET r == WithSession(lay, CHOOSE u \in authSession : TRUE, FALSE)
                IN  /\ pathname' = r.pathname
                    /\ layout' = r.layout
    /\ UNCHANGED <<formVars, dataVars, jobVars, profiles, authSession, storage>>

AuthEvents == {"INITIAL_SESSION", "SIGNED_IN", "TOKEN_REFRESHED"}

\* onAuthStateChange with a session
OnAuthStateChange(event) ==
    /\ layout.mounted
    /\ authSession # {}
    /\ LET r == WithSession(layout, CHOOSE u \in authSession : TRUE,
                            event \in {"SIGNED_IN", "TOKEN_REFRESHED"})
       IN  /\ pathname' = r.pathname
           /\ layout' = r.layout
    /\ UNCHANGED <<formVars, dataVars, jobVars, profiles, authSession, storage>>

QueryResults == {"row", "error", "timeout"}

\* checkApproval after the profiles query answered, failed or timed out
ApprovalQueryResolve(u, result) ==
    /\ layout.mounted
    /\ u \in layout.queries
    /\ LET approved == /\ result = "row"
                       /\ u \in DOMAIN profiles
                       /\ profiles[u].is_approved
       IN  /\ storage' = setApprovalInStorage(storage, u, approved)
           /\ IF ~approved /\ pathname # "/pending-approval"
              THEN /\ pathname' = "/pending-approval"
                   /\ layout' = Unmounted
              ELSE /\ pathname' = pathname
                   /\ layout' = [layout EXCEPT !.queries = @ \ {u},
                                               !.hasCheckedApproval = TRUE,
                                               !.isApproved = IF approved THEN "true" ELSE "false",
                                               !.hasEverLoadedApproval = TRUE]
    /\ UNCHANGED <<formVars, dataVars, jobVars, profiles, authSession>>

\* handleSignOut: signOut; the listener gets no session, clears the cached
\* approval of the user it knows, and navigates to /auth.
HandleSignOut ==
    /\ RendersChildren
    /\ authSession # {}
    /\ authSession' = {}
    /\ storage' = [k \in DOMAIN storage |-> IF k \in ListenerUser THEN "null" ELSE storage[k]]
    /\ pathname' = "/auth"
    /\ layout' = Unmounted
    /\ UNCHANGED <<formVars, dataVars, jobVars, profiles>>

\* the poll leaves sessionStorage as it is
StoredOnApproval_Nothing(store, userId) == store

\* sessionStorage.setItem(`approval_${user.id}`, "true")
StoredOnApproval(store, userId) == [store EXCEPT ![userId] = "true"]

\* PendingApproval page, checkApproval (on mount and every 5 seconds)
PendingCheckApproval(result) ==
    /\ pathname = "/pending-approval"
    /\ \E u \in authSession :
          IF result = "row" /\ u \in DOMAIN profiles /\ profiles[u].is_approved
          THEN /\ storage' = StoredOnApproval(storage, u)
               /\ pathname' = "/dashboard"               \* window.location.href
               /\ layout' = Mounted(storage')
          ELSE UNCHANGED <<storage, pathname, layout>>
    /\ UNCHANGED <<formVars, dataVars, jobVars, profiles, authSession>>

\* Settings page: save or clear the WhatsApp credentials of the own row
SettingsSaveWhatsApp(id, token) ==
    /\ RendersChildren
    /\ \E u \in authSession \cap DOMAIN profiles :
          profiles' = [profiles EXCEPT ![u].whatsapp_phone_number_id = id,
                                       ![u].whatsapp_token = token]
    /\ UNCHANGED <<formVars, dataVars, jobVars, clientVars>>

\* "Users can update own profile": FOR UPDATE TO authenticated USING
\* (auth.uid() = id).  Any request of a signed-in user that updates columns
\* of the own row passes the policy.
UpdateOwnProfile(is_approved) ==
    /\ \E u \in authSession \cap DOMAIN profiles :
          profiles' = [profiles EXCEPT ![u].is_approved = is_approved]
    /\ UNCHANGED <<formVars, dataVars, jobVars, clientVars>>

\* an administrator sets the flag with SQL
AdminApprove(u) ==
    /\ u \in DOMAIN profiles
    /\ ~profiles[u].is_approved
    /\ profiles' = [profiles EXCEPT ![u].is_approved = TRUE]
    /\ UNCHANGED <<formVars, dataVars, jobVars, clientVars>>

\* ------------------------------------------------------------------------
\* SpecLayout: accounts using one browser tab, and the administrator
\* approving them.
\* SpecUser: the same tab without the administrator, with the requests the
\* profiles policies let a signed-in user make.
\* ------------------------------------------------------------------------
InitLayout ==
    /\ profiles = [u \in {"a"} |-> [NewProfile EXCEPT !.is_approved = TRUE]]
    /\ authSession = {}
    /\ storage = [u \in Users |-> "null"]
    /\ pathname = "/auth"
    /\ layout = Unmounted
    /\ students = <<>>
    /\ sessions = <<>>
    /\ ledger_entries = <<>>
    /\ entrySeq = 0
    /\ sessionSeq = 0
    /\ chargedFor = <<>>
    /\ balances = <<>>
    /\ studentsView = <<>>
    /\ sessionsView = <<>>
    /\ lastComplete = {}
    /\ reminder_jobs = <<>>
    /\ env = [phone_number_id |-> "", token |-> ""]
    /\ clock = 0
    /\ inv = <<>>
    /\ attempts = {}
    /\ invoked = 0
    /\ NoForm

NextTab ==
    \/ \E u \in Users : AuthHandleSignUp(u)
    \/ \E u \in Users : AuthHandleSignIn(u)
    \/ \E path \in Paths : PageLoad(path)
    \/ InitApprovalResolve
    \/ GetSessionResolve
    \/ \E event \in AuthEvents : OnAuthStateChange(event)
    \/ \E u \in Users, result \in QueryResults : ApprovalQueryResolve(u, result)
    \/ HandleSignOut
    \/ \E result \in QueryResults : PendingCheckApproval(result)
    \/ SettingsSaveWhatsApp("111", "tokA")
    \/ SettingsSaveWhatsApp("", "")

NextLayout ==
    \/ NextTab
    \/ \E u \in Users : AdminApprove(u)

SpecLayout == InitLayout /\ [][NextLayout]_vars

\* The poll of the pending-approval page runs every 5 seconds while the page
\* is shown, and the promises the Layout waits for are settled.
SpecLayoutLive ==
    /\ SpecLayout
    /\ SF_vars(PendingCheckApproval("row"))
    /\ SF_vars(GetSessionResolve)
    /\ SF_vars(\E u \in Users, result \in QueryResults : ApprovalQueryResolve(u, result))

NextUser ==
    \/ NextTab
    \/ \E is_approved \in BOOLEAN : UpdateOwnProfile(is_approved)

SpecUser == InitLayout /\ [][NextUser]_vars

\* ------------------------------------------------------------------------
\* Sessions page, handleSubmit of a user whose profile has Zoom keys: the
\* create-zoom-meeting function is called before the insert.  The function
\* is not part of the client: its answer is any of the outcomes below.
\* ------------------------------------------------------------------------
\* "not integrated": the profile has no keys and the function is not called;
\* "meeting": it returned a meeting; "error": it returned an error;
\* "no data": it returned neither; "throw": functions.invoke threw.
ZoomOutcomes == {"not integrated", "meeting", "error", "no data", "throw"}

ZoomData_FromAnyAnswer(outcome) ==
    IF outcome # "not integrated"
    THEN [zoom_meeting_id |-> "meeting", zoom_join_url |-> "join_url",
          zoom_start_url |-> "start_url"]
    ELSE [zoom_meeting_id |-> NULL, zoom_join_url |-> NULL, zoom_start_url |-> NULL]

\* The Zoom columns of the inserted row: zoomData is set only in the branch
\* `!zoomError && zoomMeeting`; columns the insert leaves out are NULL.
ZoomData(outcome) ==
    IF outcome = "meeting"
    THEN [zoom_meeting_id |-> "meeting", zoom_join_url |-> "join_url",
          zoom_start_url |-> "start_url"]
    ELSE [zoom_meeting_id |-> NULL, zoom_join_url |-> NULL, zoom_start_url |-> NULL]

\* handleSubmit, whole: the time range check, getUser and the profile, the
\* meeting call inside try/catch, then the insert and, on success, loadSessions.
SessionsHandleSubmitZoom(tab, student_id, duration, outcome) ==
    /\ sessionSeq < MaxSessions
    /\ student_id \in DOMAIN StudentsOf(tab)
    /\ duration > 0
    /\ LET inserted == student_id \in DOMAIN students       \* the foreign key
           row == ZoomData(outcome) @@ SessionRow(student_id, duration, NULL)
           after == IF inserted THEN (sessionSeq + 1) :> row @@ sessions ELSE sessions
       IN  /\ sessions' = after
           /\ sessionSeq' = IF inserted THEN sessionSeq + 1 ELSE sessionSeq
           /\ sessionsView' = IF inserted /\ tab = "kept" THEN ScheduledRows(after)
                              ELSE sessionsView
           /\ lastSubmit' = {[zoom |-> outcome,
                              student_exists |-> student_id \in DOMAIN students,
                              inserted |-> {after[x] : x \in DOMAIN after \ DOMAIN sessions}]}
    /\ lastComplete' = {}
    /\ UNCHANGED <<dispatchVars, clientVars, forms, uploaded, applied>>
    /\ UNCHANGED <<students, ledger_entries, entrySeq, chargedFor, balances, studentsView>>

\* SpecZoom: the Sessions page of Spec with this handleSubmit, while students
\* are deleted on the Students page.
NextZoom ==
    \/ SessionsMount
    \/ \E tab \in Tabs, s \in StudentIds, d \in Durations, outcome \in ZoomOutcomes :
          SessionsHandleSubmitZoom(tab, s, d, outcome)
    \/ \E tab \in Tabs, x \in SessionIds : SessionsHandleCancel(tab, x)
    \/ \E s \in StudentIds : StudentsHandleDelete(s)

SpecZoom == Init /\ [][NextZoom]_vars

\* ------------------------------------------------------------------------
\* Ledger page: the entry form of each browser, its image, and the requests
\* handleSubmit sends.  Two browsers are open on the page; a request that
\* has been sent is applied by the database in a later step, so that the
\* requests of the two browsers interleave.
\* ------------------------------------------------------------------------
Clients == {"c1", "c2"}

MaxFormEntries == 1

\* handleImageChange: 5 * 1024 * 1024
MaxImageSize == 5242880

\* A File: its MIME type as the sequence of its parts, and its size in bytes.
Files ==
    { [type |-> <<"image", "/", "png">>, size |-> MaxImageSize],
      [type |-> <<"image", "/", "png">>, size |-> MaxImageSize + 1],
      [type |-> <<"application", "/", "pdf">>, size |-> 1024],
      [type |-> <<"image">>, size |-> 1024],
      [type |-> <<>>, size |-> 1024] }

\* String.prototype.startsWith
startsWith(text, prefix) ==
    /\ Len(text) >= Len(prefix)
    /\ SubSeq(text, 1, Len(prefix)) = prefix

ImageAccepted_AnyFile(file) == TRUE

\* handleImageChange: the two validations a selected file has to pass
ImageAccepted(file) ==
    /\ startsWith(file.type, <<"image", "/">>)
    /\ ~(file.size > MaxImageSize)

\* resetForm
ResetFormData ==
    [student_id |-> "", type |-> "PAYMENT_CONFIRMATION", amount |-> "", reference |-> "",
     isAdjustmentNegative |-> FALSE, imageFile |-> {}, existingImageUrl |-> NULL]

\* The Ledger page as mounted: the reset form, no entry being edited, no
\* request in flight.
ClosedForm == [formData |-> ResetFormData, editingEntry |-> {}, request |-> {}]

\* What the user puts into the student, type, amount and reference fields.
FormInputs ==
    { [student_id |-> "s1", type |-> "PAYMENT_CONFIRMATION", amount |-> "100",
       reference |-> ""],
      [student_id |-> "s2", type |-> "SESSION_CHARGE", amount |-> "37.5",
       reference |-> "cash"],
      [student_id |-> "s1", type |-> "PAYMENT_CONFIRMATION", amount |-> "0",
       reference |-> ""],
      [student_id |-> "s1", type |-> "ADJUSTMENT", amount |-> "10", reference |-> ""] }

\* The onChange handlers of the form fields (the amount field keeps a value
\* only when it is empty or parses to a number >= 0; leaving ADJUSTMENT
\* clears the sign flag).
LedgerFormInput(c, input) ==
    LET amountValue == parseFloat(input.amount)
        kept == input.amount = "" \/ (amountValue # NaN /\ ~DecIsPos(DecNeg(amountValue)))
    IN  /\ forms[c].request = {}
        /\ forms' = [forms EXCEPT ![c].formData =
                        [@ EXCEPT !.student_id = input.student_id,
                                  !.type = input.type,
                                  !.isAdjustmentNegative =
                                      IF input.type = "ADJUSTMENT" THEN @ ELSE FALSE,
                                  !.amount = IF kept THEN input.amount ELSE @,
                                  !.reference = input.reference]]
        /\ lastSubmit' = {}
        /\ UNCHANGED <<uploaded, applied, dataVars, jobVars, profiles, clientVars>>

\* The "Negative adjustment" switch, rendered while the type is ADJUSTMENT
LedgerAdjustmentSwitch(c, checked) ==
    /\ forms[c].request = {}
    /\ forms[c].formData.type = "ADJUSTMENT"
    /\ forms' = [forms EXCEPT ![c].formData.isAdjustmentNegative = checked]
    /\ lastSubmit' = {}
    /\ UNCHANGED <<uploaded, applied, dataVars, jobVars, profiles, clientVars>>

\* handleImageChange: a file that fails a validation leaves formData alone
LedgerHandleImageChange(c, file) ==
    /\ forms[c].request = {}
    /\ forms' = IF ImageAccepted(file)
                THEN [forms EXCEPT ![c].formData.imageFile = {file}]
                ELSE forms
    /\ lastSubmit' = {}
    /\ UNCHANGED <<uploaded, applied, dataVars, jobVars, profiles, clientVars>>

DecAbs(a) == IF a.d < 0 THEN DecNeg(a) ELSE a

\* Number.prototype.toString of the amounts the form can have stored
NumberToString(a) ==
    CASE a = Dec(10, 0)   -> "10"
      [] a = Dec(8, 33)   -> "8.33"
      [] a = Dec(37, 50)  -> "37.5"
      [] a = Dec(100, 0)  -> "100"
      [] a = Zero         -> "0"
      [] OTHER            -> "NaN"

\* handleEdit: the form takes the entry's values, and no new image.  A row
\* written without the image column has it NULL.
EditFormData(entry) ==
    [student_id |-> entry.student_id,
     type |-> entry.type,
     amount |-> NumberToString(DecAbs(entry.amount)),
     reference |-> IF entry.reference = NULL THEN "" ELSE entry.reference,
     isAdjustmentNegative |-> entry.type = "ADJUSTMENT" /\ entry.amount.d < 0,
     imageFile |-> {},
     existingImageUrl |-> IF "image_url" \in DOMAIN entry THEN entry.image_url ELSE NULL]

LedgerHandleEdit(c, e) ==
    /\ forms[c].request = {}
    /\ e \in DOMAIN ledger_entries
    /\ forms' = [forms EXCEPT ![c] =
                    [formData |-> EditFormData(ledger_entries[e]),
                     editingEntry |-> {e},
                     request |-> {}]]
    /\ lastSubmit' = {}
    /\ UNCHANGED <<uploaded, applied, dataVars, jobVars, profiles, clientVars>>

\* Dialog onOpenChange(false): resetForm and setEditingEntry(null)
LedgerDialogClose(c) ==
    /\ forms[c].request = {}
    /\ forms[c] # ClosedForm
    /\ forms' = [forms EXCEPT ![c] = ClosedForm]
    /\ lastSubmit' = {}
    /\ UNCHANGED <<uploaded, applied, dataVars, jobVars, profiles, clientVars>>

AmountRejected_OnlyNaN(amountValue) == amountValue = NaN

\* handleSubmit: isNaN(amountValue) || amountValue <= 0
AmountRejected(amountValue) == amountValue = NaN \/ ~DecIsPos(amountValue)

\* getPublicUrl of the object a browser uploaded
PublicUrl(c) == IF c = "c1" THEN "ledger-images/c1" ELSE "ledger-images/c2"

FormEntryData_NewImageOnly(formData, imageUrl) ==
    [image_url |-> imageUrl]
    @@ EntryData(formData.student_id, formData, formData.reference)

\* entryData of handleSubmit, with the image
FormEntryData(formData, imageUrl) ==
    [image_url |-> IF imageUrl # NULL THEN imageUrl
                   ELSE IF formData.existingImageUrl # NULL THEN formData.existingImageUrl
                   ELSE NULL]
    @@ EntryData(formData.student_id, formData, formData.reference)

\* the insert requests in flight
InsertsInFlight == {c \in Clients : \E req \in forms[c].request : req.kind = "insert"}

\* Ledger page, handleSubmit up to the request it awaits last: validate the
\* amount, getUser, upload the image if one is selected (uploadError: the
\* upload returned an error or threw), then send the update or the insert.
\* The submit button is disabled while a request is in flight, and the
\* browser submits the form only with its required fields filled.
LedgerFormSubmit(c, uploadError) ==
    LET formData == forms[c].formData
        rejected == AmountRejected(parseFloat(formData.amount))
        uploads == ~rejected /\ formData.imageFile # {}
        failed == uploads /\ uploadError
        kind == IF forms[c].editingEntry = {} THEN "insert" ELSE "update"
        entryData == FormEntryData(formData, IF uploads THEN PublicUrl(c) ELSE NULL)
    IN  /\ forms[c].request = {}
        /\ formData.student_id # "" /\ formData.amount # ""
        /\ uploadError => formData.imageFile # {}
        /\ kind = "insert" => entrySeq + Cardinality(InsertsInFlight) < MaxFormEntries
        /\ uploaded' = IF uploads THEN uploaded \cup formData.imageFile ELSE uploaded
        /\ forms' = IF rejected \/ failed THEN forms
                    ELSE [forms EXCEPT ![c].request =
                             {[kind |-> kind, id |-> forms[c].editingEntry,
                               entryData |-> entryData]}]
        /\ lastSubmit' = {[client |-> c, amount |-> formData.amount,
                           calls |-> (IF rejected THEN {} ELSE {"getUser"})
                                     \cup (IF uploads THEN {"upload"} ELSE {})
                                     \cup (IF rejected \/ failed THEN {} ELSE {kind})]}
        /\ UNCHANGED <<applied, dataVars, jobVars, profiles, clientVars>>

UpdatedRow_KeepsImage(old, entryData) ==
    [f \in DOMAIN old |->
        IF f \in DOMAIN entryData /\ ~(f = "image_url" /\ entryData[f] = NULL)
        THEN entryData[f] ELSE old[f]]

\* UPDATE ledger_entries SET <the columns of entryData> WHERE id = ..
UpdatedRow(old, entryData) ==
    [f \in DOMAIN old |-> IF f \in DOMAIN entryData THEN entryData[f] ELSE old[f]]

\* the browsers other than c whose update of entry e is in flight
Rivals(c, e) ==
    {d \in Clients \ {c} : \E req \in forms[d].request : req.kind = "update" /\ e \in req.id}

\* The database applies the request of browser c and handleSubmit goes on:
\* on success resetForm, loadEntries and loadBalances; on an error the toast.
LedgerRequestApplied(c) ==
    \E req \in forms[c].request :
        LET row      == req.entryData
            accepted == InsertAccepted(row)
            hits     == req.id \cap DOMAIN ledger_entries
            after    == IF ~accepted THEN ledger_entries
                        ELSE IF req.kind = "insert"
                        THEN (entrySeq + 1) :> row @@ ledger_entries
                        ELSE [e \in DOMAIN ledger_entries |->
                                 IF e \in req.id THEN UpdatedRow(ledger_entries[e], row)
                                 ELSE ledger_entries[e]]
        IN  /\ ledger_entries' = after
            /\ entrySeq' = IF accepted /\ req.kind = "insert" THEN entrySeq + 1 ELSE entrySeq
            /\ applied' = IF accepted /\ req.kind = "update"
                          THEN [e \in DOMAIN applied \cup hits |->
                                   IF e \in hits
                                   THEN [entryData |-> row, by |-> c,
                                         rivals |-> Rivals(c, e),
                                         raced |-> e \in DOMAIN applied
                                                   /\ c \in applied[e].rivals]
                                   ELSE applied[e]]
                          ELSE applied
            /\ forms' = [forms EXCEPT ![c] =
                            IF accepted THEN ClosedForm ELSE [@ EXCEPT !.request = {}]]
            /\ balances' = IF accepted THEN LoadBalances(students, after) ELSE balances
            /\ lastSubmit' = {}
            /\ lastComplete' = {}
            /\ UNCHANGED <<uploaded, students, sessions, sessionSeq, chargedFor, studentsView,
                           sessionsView, jobVars, profiles, clientVars>>

InitForm ==
    /\ students = InitStudents
    /\ sessions = <<>>
    /\ ledger_entries = <<>>
    /\ entrySeq = 0
    /\ sessionSeq = 0
    /\ chargedFor = <<>>
    /\ balances = LoadBalances(InitStudents, <<>>)
    /\ studentsView = <<>>
    /\ sessionsView = <<>>
    /\ lastComplete = {}
    /\ NoDispatcher
    /\ NoLayout
    /\ forms = [c \in Clients |-> ClosedForm]
    /\ uploaded = {}
    /\ lastSubmit = {}
    /\ applied = <<>>

\* SpecForm: one browser creates and edits entries, with and without image.
NextForm ==
    \/ \E input \in FormInputs : LedgerFormInput("c1", input)
    \/ \E file \in Files : LedgerHandleImageChange("c1", file)
    \/ \E e \in 1..MaxFormEntries : LedgerHandleEdit("c1", e)
    \/ \E checked \in BOOLEAN : LedgerAdjustmentSwitch("c1", checked)
    \/ LedgerDialogClose("c1")
    \/ \E uploadError \in BOOLEAN : LedgerFormSubmit("c1", uploadError)
    \/ LedgerRequestApplied("c1")

SpecForm == InitForm /\ [][NextForm]_vars

\* SpecSign: one browser with the ledger form (create and edit, every
\* type) while sessions of a student are scheduled and completed and
\* the price of a student is set to the smallest the Students form takes.
\* the price input: step="0.01", in hundredths
SmallestPrice == 1

InitSign ==
    /\ students = InitStudents
    /\ sessions = <<>>
    /\ ledger_entries = <<>>
    /\ entrySeq = 0
    /\ sessionSeq = 0
    /\ chargedFor = <<>>
    /\ balances = LoadBalances(InitStudents, <<>>)
    /\ studentsView = ActiveStudents(InitStudents)
    /\ sessionsView = <<>>
    /\ lastComplete = {}
    /\ NoDispatcher
    /\ NoLayout
    /\ forms = [c \in Clients |-> ClosedForm]
    /\ uploaded = {}
    /\ lastSubmit = {}
    /\ applied = <<>>

NextSign ==
    \/ \E input \in FormInputs : LedgerFormInput("c1", input)
    \/ \E checked \in BOOLEAN : LedgerAdjustmentSwitch("c1", checked)
    \/ \E e \in 1..MaxCharges : LedgerHandleEdit("c1", e)
    \/ LedgerFormSubmit("c1", FALSE)
    \/ LedgerRequestApplied("c1")
    \/ SessionsHandleSubmit("opened", "s1", 20)
    \/ \E x \in SessionIds : SessionsHandleComplete("opened", x, "none")
    \/ StudentsHandleSubmit("s1", SmallestPrice)

SpecSign == InitSign /\ [][NextSign]_vars

\* SpecEdit: the ledger holds one entry, written by the form or by
\* handleComplete, and both browsers edit it; each may change the fields
\* and attach an image before it submits, or submit the form as opened.
FirstEntries ==
    { [student_id |-> "s1", type |-> "PAYMENT_CONFIRMATION", amount |-> Dec(100, 0),
       reference |-> NULL, image_url |-> NULL],                  \* by the form
      [student_id |-> "s1", type |-> "SESSION_CHARGE", amount |-> ChargeAmount(20, 2500),
       reference |-> SessionReference(1), image_url |-> NULL] }  \* by handleComplete

InitEdit ==
    /\ students = InitStudents
    /\ sessions = <<>>
    /\ \E row \in FirstEntries : ledger_entries = 1 :> row
    /\ entrySeq = 1
    /\ sessionSeq = 0
    /\ chargedFor = <<>>
    /\ balances = LoadBalances(InitStudents, ledger_entries)
    /\ studentsView = <<>>
    /\ sessionsView = <<>>
    /\ lastComplete = {}
    /\ NoDispatcher
    /\ NoLayout
    /\ forms = [c \in Clients |-> ClosedForm]
    /\ uploaded = {}
    /\ lastSubmit = {}
    /\ applied = <<>>

NextEdit ==
    \/ \E c \in Clients : LedgerHandleEdit(c, 1)
    \/ \E c \in Clients, input \in FormInputs :
          forms[c].editingEntry # {} /\ LedgerFormInput(c, input)
    \/ \E c \in Clients, checked \in BOOLEAN :
          forms[c].editingEntry # {} /\ LedgerAdjustmentSwitch(c, checked)
    \/ \E c \in Clients, file \in Files :
          forms[c].editingEntry # {} /\ LedgerHandleImageChange(c, file)
    \/ \E c \in Clients, uploadError \in BOOLEAN :
          forms[c].editingEntry # {} /\ LedgerFormSubmit(c, uploadError)
    \/ \E c \in Clients : LedgerRequestApplied(c)

SpecEdit == InitEdit /\ [][NextEdit]_vars

\* ------------------------------------------------------------------------
\* SpecFunctions: the two edge functions a page calls on request,
\* send-contact-email and create-zoom-meeting.  Each request is served in
\* one step; what the provider answers is an input of the step.
\* ------------------------------------------------------------------------
\* A request body: whether req.json() parses it, and the fields it holds
\* with a truthy value.
Bodies(fields) ==
    {[parsed |-> FALSE, fields |-> {}]}
    \cup {[parsed |-> TRUE, fields |-> f] : f \in SUBSET fields}

\* the Resend call: 2xx with its JSON body, 2xx with a body json() cannot
\* read, a non-2xx answer, or fetch throws
ResendOutcomes == {"accepted", "unreadable", "refused", "throw"}

\* sendEmailViaSMTP: returns, throws before the message is accepted, or
\* throws at QUIT after the server's 250 for the message
SmtpOutcomes == {"sent", "failed", "quit failed"}

\* serve of send-contact-email: the provider calls it makes, in order, and
\* the status of its response
SendContactEmail(body, resend, smtp) ==
    LET smtpSet == env.GMAIL_SMTP_USER # "" /\ env.GMAIL_SMTP_PASS # ""
        viaSmtp ==
            IF smtpSet
            THEN [calls |-> <<[provider |-> "smtp", outcome |-> smtp]>>,
                  status |-> IF smtp = "sent" THEN 200 ELSE 500]
            ELSE [calls |-> <<>>, status |-> 500]
    IN  IF ~body.parsed THEN [calls |-> <<>>, status |-> 500]
        ELSE IF ~({"to", "subject", "html"} \subseteq body.fields)
        THEN [calls |-> <<>>, status |-> 400]
        ELSE IF env.RESEND_API_KEY = "" THEN viaSmtp
        ELSE IF resend = "accepted"
        THEN [calls |-> <<[provider |-> "resend", outcome |-> resend]>>, status |-> 200]
        ELSE IF ~smtpSet
        THEN [calls |-> <<[provider |-> "resend", outcome |-> resend]>>, status |-> 500]
        ELSE [calls |-> <<[provider |-> "resend", outcome |-> resend]>> \o viaSmtp.calls,
              status |-> viaSmtp.status]

ServeSendContactEmail(body, resend, smtp) ==
    /\ lastSubmit' = {[function |-> "send-contact-email", body |-> body]
                      @@ SendContactEmail(body, resend, smtp)}
    /\ UNCHANGED <<dataVars, dispatchVars, clientVars, forms, uploaded, applied>>

\* the token request and the meeting request: 2xx, non-2xx, or fetch throws
ZoomAnswers == {"ok", "refused", "throw"}

\* The answers of auth.getUser() for the Authorization header.
Callers == {{}} \cup {{u} : u \in Users}

ZoomColumns == {"zoom_api_key", "zoom_api_secret", "zoom_account_id"}

CreateZoomMeeting_AnyProfile(caller, profileError, body, token, meeting) ==
    LET complete == {u \in DOMAIN profiles :
                        \A col \in ZoomColumns : profiles[u][col] # NULL}
        tokenCall == [provider |-> "zoom token", outcome |-> token,
                      credentials |-> {profiles[CHOOSE u \in complete : TRUE]}]
    IN  IF caller = {} THEN [calls |-> <<>>, status |-> 401]
        ELSE IF profileError \/ complete = {}
        THEN [calls |-> <<>>, status |-> 400]
        ELSE IF ~body.parsed THEN [calls |-> <<>>, status |-> 500]
        ELSE IF body.fields # {"start_time", "duration", "topic"}
        THEN [calls |-> <<>>, status |-> 400]
        ELSE IF token # "ok" THEN [calls |-> <<tokenCall>>, status |-> 500]
        ELSE [calls |-> <<tokenCall, [provider |-> "zoom meeting", outcome |-> meeting]>>,
              status |-> CASE meeting = "ok"      -> 200
                           [] meeting = "refused" -> 429
                           [] meeting = "throw"   -> 500]

\* serve of create-zoom-meeting: the provider calls it makes, in order, with
\* the credentials of the token request, and the status of its response
CreateZoomMeeting(caller, profileError, body, token, meeting) ==
    LET own == {profiles[u] : u \in caller \cap DOMAIN profiles}
        complete == {p \in own : \A col \in ZoomColumns : p[col] # NULL}
        tokenCall == [provider |-> "zoom token", outcome |-> token,
                      credentials |-> complete]
    IN  IF caller = {} THEN [calls |-> <<>>, status |-> 401]
        ELSE IF profileError \/ complete = {}
        THEN [calls |-> <<>>, status |-> 400]
        ELSE IF ~body.parsed THEN [calls |-> <<>>, status |-> 500]
        ELSE IF body.fields # {"start_time", "duration", "topic"}
        THEN [calls |-> <<>>, status |-> 400]
        ELSE IF token # "ok" THEN [calls |-> <<tokenCall>>, status |-> 500]
        ELSE [calls |-> <<tokenCall, [provider |-> "zoom meeting", outcome |-> meeting]>>,
              status |-> CASE meeting = "ok"      -> 200
                           [] meeting = "refused" -> 429
                           [] meeting = "throw"   -> 500]

ServeCreateZoomMeeting(caller, profileError, body, token, meeting) ==
    /\ lastSubmit' = {[function |-> "create-zoom-meeting", body |-> body,
                       caller |-> caller]
                      @@ CreateZoomMeeting(caller, profileError, body, token, meeting)}
    /\ UNCHANGED <<dataVars, dispatchVars, clientVars, forms, uploaded, applied>>

\* The secrets of the deployment are any of set and unset; user a has any of
\* the Zoom columns filled in Settings, user b all three.
InitFunctions ==
    /\ env \in [{"RESEND_API_KEY", "GMAIL_SMTP_USER", "GMAIL_SMTP_PASS"} -> {"", "set"}]
    /\ \E filled \in SUBSET ZoomColumns :
          profiles = [u \in Users |->
                        [col \in ZoomColumns |->
                           IF u = "b" \/ col \in filled THEN <<col, u>> ELSE NULL]]
    /\ students = <<>>
    /\ sessions = <<>>
    /\ ledger_entries = <<>>
    /\ entrySeq = 0
    /\ sessionSeq = 0
    /\ chargedFor = <<>>
    /\ balances = <<>>
    /\ studentsView = <<>>
    /\ sessionsView = <<>>
    /\ lastComplete = {}
    /\ reminder_jobs = <<>>
    /\ clock = 0
    /\ inv = <<>>
    /\ attempts = {}
    /\ invoked = 0
    /\ NoLayout
    /\ NoForm

NextFunctions ==
    \/ \E body \in Bodies({"to", "subject", "html", "text"}),
          resend \in ResendOutcomes, smtp \in SmtpOutcomes :
          ServeSendContactEmail(body, resend, smtp)
    \/ \E caller \in Callers, profileError \in BOOLEAN,
          body \in Bodies({"start_time", "duration", "topic"}),
          token \in ZoomAnswers, meeting \in ZoomAnswers :
          ServeCreateZoomMeeting(caller, profileError, body, token, meeting)

SpecFunctions == InitFunctions /\ [][NextFunctions]_vars

\* ------------------------------------------------------------------------
\* SpecRace: handleComplete request by request.  A call reads the existing
\* charge, then updates the session, then inserts the charge; the requests
\* of the calls of two tabs interleave.  inv holds the call of each tab.
\* ------------------------------------------------------------------------
\* handleComplete up to the answer of the existing-charge query
CompleteRead(tab, sessionId) ==
    /\ IF tab \in DOMAIN inv THEN inv[tab].pc = "done" ELSE TRUE
    /\ sessionId \in DOMAIN SessionsOf(tab)                   \* sessions.find
    /\ LET session == SessionsOf(tab)[sessionId]
           call == [pc        |-> "update",
                    sessionId |-> sessionId,
                    session   |-> session,
                    students  |-> StudentsOf(tab),
                    existing  |-> ExistingEntries(session.student_id, sessionId),
                    fault     |-> "none",
                    inserted  |-> {}]
       IN  inv' = [t \in DOMAIN inv \cup {tab} |-> IF t = tab THEN call ELSE inv[t]]
    /\ UNCHANGED <<dataVars, reminder_jobs, profiles, env, clock, attempts, invoked,
                   clientVars, formVars>>

\* the update of the session, and the returns that follow it: on its error,
\* on an existing charge, on a student missing from the loaded list
CompleteUpdate(tab, fault) ==
    /\ tab \in DOMAIN inv
    /\ inv[tab].pc = "update"
    /\ LET call    == inv[tab]
           updated == fault # "sessionError"
           after   == IF updated THEN SessionsWithStatus(call.sessionId, "COMPLETED")
                      ELSE sessions
           goesOn  == /\ updated
                      /\ call.existing = {}
                      /\ call.session.student_id \in DOMAIN call.students
       IN  /\ sessions' = after
           /\ sessionsView' = IF updated /\ ~goesOn /\ tab = "kept"
                              THEN ScheduledRows(after) ELSE sessionsView
           /\ inv' = [inv EXCEPT ![tab].pc = IF goesOn THEN "insert" ELSE "done",
                                 ![tab].fault = fault]
    /\ UNCHANGED <<students, ledger_entries, entrySeq, sessionSeq, chargedFor, balances,
                   studentsView, lastComplete>>
    /\ UNCHANGED <<reminder_jobs, profiles, env, clock, attempts, invoked, clientVars,
                   formVars>>

\* the insert of the charge, then loadSessions
CompleteInsert(tab, fault) ==
    /\ tab \in DOMAIN inv
    /\ inv[tab].pc = "insert"
    /\ LET call == inv[tab]
           row  == [student_id |-> call.session.student_id,
                    type       |-> "SESSION_CHARGE",
                    amount     |-> ChargeAmount(call.session.duration,
                                                call.students[call.session.student_id]),
                    reference  |-> SessionReference(call.sessionId)]
           inserts == fault # "ledgerError" /\ InsertAccepted(row)
       IN  /\ inserts => entrySeq < MaxCharges
           /\ ledger_entries' = IF inserts THEN (entrySeq + 1) :> row @@ ledger_entries
                                ELSE ledger_entries
           /\ entrySeq' = IF inserts THEN entrySeq + 1 ELSE entrySeq
           /\ chargedFor' = IF inserts THEN (entrySeq + 1) :> call.sessionId @@ chargedFor
                            ELSE chargedFor
           /\ inv' = [inv EXCEPT ![tab].pc = "done",
                                 ![tab].fault = fault,
                                 ![tab].inserted = IF inserts THEN {entrySeq + 1} ELSE {}]
    /\ sessionsView' = IF tab = "kept" THEN ScheduledRows(sessions) ELSE sessionsView
    /\ UNCHANGED <<students, sessions, sessionSeq, balances, studentsView, lastComplete>>
    /\ UNCHANGED <<reminder_jobs, profiles, env, clock, attempts, invoked, clientVars,
                   formVars>>

NextRace ==
    \/ SessionsMount
    \/ \E d \in Durations : SessionsHandleSubmit("opened", "s1", d)
    \/ \E tab \in Tabs, x \in SessionIds : CompleteRead(tab, x)
    \/ \E tab \in Tabs, fault \in Faults \ {"ledgerError"} : CompleteUpdate(tab, fault)
    \/ \E tab \in Tabs, fault \in Faults \ {"sessionError"} : CompleteInsert(tab, fault)
    \/ \E s \in EditedStudents : StudentsHandleToggleStatus(s)

SpecRace == Init /\ [][NextRace]_vars

\* ========================================================================
\* Properties
\* ========================================================================
RECURSIVE SumOfFirst(_, _)
\* the amounts of the student's current entries among ids 1..n, added in id order
SumOfFirst(n, s) ==
    IF n = 0 THEN Zero
    ELSE DecAdd(SumOfFirst(n - 1, s),
                IF n \in DOMAIN ledger_entries /\ ledger_entries[n].student_id = s
                THEN ledger_entries[n].amount ELSE Zero)

\* C1: after any sequence of ledger inserts, edits and cascades,
\* get_student_balance(s) returns, without an error, exactly the sum of the
\* current amounts of the entries of student s.
C1_BalanceIsExactSum ==
    \A s \in StudentIds :
        get_student_balance(s) = [error |-> FALSE, data |-> SumOfFirst(entrySeq, s)]

EntriesOf(s) == {e \in DOMAIN ledger_entries : ledger_entries[e].student_id = s}

\* C2: a student with no ledger entries, an id that never was a student and a
\* deleted student all have balance exactly zero, returned without an error.
C2_ZeroWithoutEntries ==
    \A s \in StudentIds \cup {UnknownStudent} :
        (s \notin DOMAIN students \/ EntriesOf(s) = {})
            => get_student_balance(s) = [error |-> FALSE, data |-> Zero]

\* C2 witness: a student was deleted after entries were made for them (ledger
\* ids were handed out whose rows the cascade removed), and the balance asked
\* for the deleted id is zero.
C2_DeletedStudentZero ==
    \E s \in StudentIds :
        /\ s \notin DOMAIN students
        /\ Cardinality(DOMAIN ledger_entries) < entrySeq
        /\ get_student_balance(s).data = Zero

\* the SESSION_CHARGE entries that name session x in their reference
ChargesOf(x) ==
    {e \in DOMAIN ledger_entries :
        /\ ledger_entries[e].type = "SESSION_CHARGE"
        /\ ledger_entries[e].reference = SessionReference(x)}

\* C3: a session that handleComplete has just marked COMPLETED has exactly
\* one SESSION_CHARGE entry, for its student, whose amount is
\* -(duration in hours x the student's price_per_hour), to the hundredth.
C3_CompletedSessionHasExactCharge ==
    \A lc \in lastComplete :
        LET x == lc.sessionId
        IN  (lc.fault = "none" /\ x \in DOMAIN sessions /\ sessions[x].status = "COMPLETED")
            => /\ Cardinality(ChargesOf(x)) = 1
               /\ \A e \in ChargesOf(x) :
                    /\ ledger_entries[e].student_id = sessions[x].student_id
                    /\ ledger_entries[e].amount =
                          ChargeAmount(sessions[x].duration,
                                       students[sessions[x].student_id].price_per_hour)

\* C4: however often handleComplete runs on a session, and whatever ledger
\* edits happen in between, at most one SESSION_CHARGE entry names the session.
C4_SecondCompletionAddsNoCharge ==
    \A x \in SessionIds : Cardinality(ChargesOf(x)) <= 1


\* ------------------------------------------------------------------------
\* Reminder dispatcher
\* ------------------------------------------------------------------------
\* The step in which instance i selects its due jobs.
Selects(i) == inv[i].pc \in {"idle", "done", "error"} /\ inv'[i].pc = "loop"

\* C5: nothing in the dispatcher claims a job before sending: the step in
\* which an invocation selects its due jobs leaves every selected job
\* PENDING, hence selectable by an overlapping invocation, which can then
\* POST the same reminder a second time.
C5_SelectClaimsNothing ==
    [][\A i \in Instances :
          Selects(i) => \A j \in inv'[i].selected : reminder_jobs'[j].status = "PENDING"]_vars

\* Two overlapping invocations have both POSTed the message of the same job
\* and none has written its outcome yet.
C5_SameJobPostedTwice ==
    /\ inv["a"].pc = "updateJob"
    /\ inv["b"].pc = "updateJob"
    /\ \E c1 \in inv["a"].cur, c2 \in inv["b"].cur :
          c1.job.id = c2.job.id /\ c1.resp.ok /\ c2.resp.ok

\* The jobs whose student has no phone number
JobsWithoutPhone ==
    {j \in DOMAIN reminder_jobs :
        students[sessions[reminder_jobs[j].session_id].student_id].phone_e164 \in {"", NULL}}

\* C6: a reminder job whose student has no phone number is never POSTed and
\* never SENT, and once an invocation has handled it, it is FAILED with a
\* non-empty last_error.
C6_MissingPhoneFails ==
    \A j \in JobsWithoutPhone :
        /\ reminder_jobs[j].status \in {"PENDING", "FAILED"}
        /\ \A a \in attempts : a.job = j => a.kind # "post"
        /\ (\E a \in attempts : a.job = j) =>
              /\ reminder_jobs[j].status = "FAILED"
              /\ reminder_jobs[j].last_error \notin {NULL, ""}

C6_MissingPhoneJobFailed ==
    \E j \in JobsWithoutPhone :
        /\ reminder_jobs[j].status = "FAILED"
        /\ reminder_jobs[j].last_error = "Missing student phone"
        /\ \E i \in Instances : inv[i].pc = "done" /\ j \in inv[i].selected

\* The creator's profile of a job's session holds both WhatsApp settings
ProfilePairComplete(j) ==
    LET created_by == sessions[reminder_jobs[j].session_id].created_by
    IN  /\ created_by # NULL
        /\ created_by \in DOMAIN profiles
        /\ profiles[created_by].whatsapp_phone_number_id # ""
        /\ profiles[created_by].whatsapp_token # ""

DefaultPairComplete == env.phone_number_id # "" /\ env.token # ""

\* C7: a POST uses the creator's pair when the profile holds both values,
\* otherwise the default pair, which is then complete; a job is failed for
\* missing credentials, with that error, only when neither pair is complete.
C7_CredentialResolution ==
    \A a \in attempts :
        /\ a.kind = "post" =>
              IF ProfilePairComplete(a.job)
              THEN LET profile == profiles[sessions[reminder_jobs[a.job].session_id].created_by]
                   IN  /\ a.phoneNumberId = profile.whatsapp_phone_number_id
                       /\ a.token = profile.whatsapp_token
              ELSE /\ DefaultPairComplete
                   /\ a.phoneNumberId = env.phone_number_id
                   /\ a.token = env.token
        /\ a.kind = "Missing WhatsApp credentials" =>
              /\ ~ProfilePairComplete(a.job)
              /\ ~DefaultPairComplete
        /\ (a.job \notin JobsWithoutPhone /\ ~ProfilePairComplete(a.job) /\ ~DefaultPairComplete)
              => a.kind = "Missing WhatsApp credentials"

\* The creator's profile holds only one of the two values and the message
\* went out with the default pair.
C7_FellBackToDefault ==
    \E a \in attempts :
        /\ a.kind = "post"
        /\ sessions[reminder_jobs[a.job].session_id].created_by = "u1"
        /\ profiles["u1"].whatsapp_phone_number_id = "111"
        /\ profiles["u1"].whatsapp_token = ""
        /\ a.phoneNumberId = "999"
        /\ a.token = "tokEnv"

\* The step in which instance i writes the outcome of its POST to the job.
WritesOutcome(i) == inv[i].pc = "updateJob" /\ inv'[i].pc = "updateSession"

\* C8: the write that follows a POST sets the job to SENT with last_error
\* null when the response was successful, and to FAILED with the provider's
\* error body in last_error when it was not.
C8_OutcomeOfPost ==
    [][\A i \in Instances : WritesOutcome(i) =>
          \A c \in inv[i].cur :
             LET row == reminder_jobs'[c.job.id]
             IN  IF c.resp.ok
                 THEN row.status = "SENT" /\ row.last_error = NULL
                 ELSE /\ row.status = "FAILED"
                      /\ c.resp.status = 400 => row.last_error = "{\"error\":190}"
                      /\ c.resp.status = 502 =>
                            row.last_error = "{\"message\":\"Bad Gateway\",\"status\":502}"]_vars

C8_SentAndFailed ==
    /\ reminder_jobs[1].status = "SENT"
    /\ reminder_jobs[1].last_error = NULL
    /\ reminder_jobs[3].status = "FAILED"
    /\ reminder_jobs[3].last_error = "{\"error\":190}"

\* C9: a POST that threw leaves its job FAILED with the error persisted once
\* the invocation has ended.
C9_ThrownErrorFailsJob ==
    \A i \in Instances :
        inv[i].pc = "error" =>
            \A c \in inv[i].cur :
                /\ reminder_jobs[c.job.id].status = "FAILED"
                /\ reminder_jobs[c.job.id].last_error # NULL

\* C10: when an invocation has ended, every job it selected is SENT or
\* FAILED.
C10_FailureIsLocal ==
    \A i \in Instances :
        inv[i].pc \in {"done", "error"} =>
            \A j \in inv[i].selected : reminder_jobs[j].status \in {"SENT", "FAILED"}

\* The step in which instance i POSTs the message of job j.
Posts(i, j) ==
    /\ inv[i].pc = "loop"
    /\ inv'[i].pc \in {"updateJob", "error"}
    /\ \E c \in inv'[i].cur : c.job.id = j

TerminalStatuses == {"SENT", "FAILED"}

\* C11 as stated: once a job is SENT or FAILED, no step changes its status and
\* no step POSTs a message for it, under any interleaving of invocations.
C11_TerminalJobUntouched ==
    [][\A j \in DOMAIN reminder_jobs :
          reminder_jobs[j].status \in TerminalStatuses =>
             /\ reminder_jobs'[j].status = reminder_jobs[j].status
             /\ \A i \in Instances : ~Posts(i, j)]_vars

\* C11 amended: a job that is SENT or FAILED is selected by no invocation that
\* starts afterwards, and its status is changed or its message POSTed only by
\* an invocation still running that had selected it before.
C11_NoRetryByLaterInvocation ==
    [][\A j \in DOMAIN reminder_jobs :
          reminder_jobs[j].status \in TerminalStatuses =>
             /\ \A i \in Instances :
                   (invoked' # invoked /\ inv'[i] # inv[i]) => j \notin inv'[i].selected
             /\ (reminder_jobs'[j].status # reminder_jobs[j].status
                   \/ \E i \in Instances : Posts(i, j))
                => \E i \in Instances :
                      /\ j \in inv[i].selected
                      /\ inv[i].pc \in {"loop", "updateJob"}]_vars

\* A second invocation started when job 2, due from the start, had already
\* FAILED: it did not select the job, it has ended, and the job is still FAILED.
C11_FailedJobLeftAlone ==
    /\ invoked = 2
    /\ reminder_jobs[2].status = "FAILED"
    /\ \E i \in Instances : inv[i].pc = "done" /\ 2 \notin inv[i].selected
    /\ \E i \in Instances : inv[i].pc = "done" /\ 2 \in inv[i].selected

\* The jobs instance i selected and has finished with.
Processed(i) ==
    IF inv[i].pc \in {"loop", "done"}
    THEN inv[i].selected \ {job.id : job \in inv[i].todo}
    ELSE {}

\* C12: once the dispatcher has processed a job, the parent session's
\* whatsapp_notification_status and whatsapp_last_error equal the job's status
\* and last_error, however the job ended.
C12_SessionMirrorsJob ==
    \A i \in Instances : \A j \in Processed(i) :
        LET job  == reminder_jobs[j]
            sess == sessions[job.session_id]
        IN  /\ sess.whatsapp_notification_status = job.status
            /\ sess.whatsapp_last_error = job.last_error

\* ------------------------------------------------------------------------
\* Session lifecycle
\* ------------------------------------------------------------------------
ClosedStatuses == {"COMPLETED", "CANCELED"}

\* C16: once a session is COMPLETED or CANCELED, no handleComplete or
\* handleCancel call, from a fresh or a stale session list, changes its status.
C16_NoReopening ==
    [][\A x \in DOMAIN sessions :
          sessions[x].status \in ClosedStatuses =>
             /\ x \in DOMAIN sessions'
             /\ sessions'[x].status = sessions[x].status]_vars

\* ------------------------------------------------------------------------
\* Approval
\* ------------------------------------------------------------------------
\* C13: the Layout shows the page content only while the signed-in user's
\* profile has is_approved = true.
C13_ContentOnlyForApproved ==
    RendersChildren =>
        \A u \in authSession : u \in DOMAIN profiles /\ profiles[u].is_approved

\* C15: a new profile has is_approved = false, and no request of an ordinary
\* user turns the flag of a profile from false to true.
C15_UsersCannotApprove ==
    [][\A u \in DOMAIN profiles' :
          IF u \in DOMAIN profiles
          THEN profiles'[u].is_approved => profiles[u].is_approved
          ELSE ~profiles'[u].is_approved]_vars

\* User u is signed in, approved, and on the page content at /dashboard
\* with approval_<u> = "true" in session storage.
ShownDashboard(u) ==
    /\ authSession = {u}
    /\ pathname = "/dashboard"
    /\ storage[u] = "true"
    /\ RendersChildren

\* C14: a signed-in user on the pending-approval page whose is_approved flag
\* is true is, after a successful poll, at /dashboard with approval_<id> =
\* "true" stored and the page rendered (unless the user signs out first); and
\* there no approval query is pending and every callback of the Layout
\* keeps the user on the page, so nothing sends the user back.
C14_ApprovedUserReachesDashboard ==
    /\ \A u \in Users :
          (/\ pathname = "/pending-approval"
           /\ authSession = {u}
           /\ u \in DOMAIN profiles
           /\ profiles[u].is_approved)
             ~> (ShownDashboard(u) \/ authSession # {u})
    /\ [](\A u \in Users :
            ShownDashboard(u) =>
               /\ layout.queries = {}
               /\ \A resetCheck \in BOOLEAN :
                     WithSession(layout, u, resetCheck).pathname = "/dashboard")

\* b, who signed up unapproved, has just been loaded into /dashboard with the
\* approval stored, before the Layout made any check of its own.
C14_ReloadedIntoDashboard ==
    /\ ShownDashboard("b")
    /\ profiles["b"].is_approved
    /\ layout.getSession
    /\ layout.initApproval
    /\ storage["a"] # "true"

\* C17: the image the ledger form holds is either none or a file whose MIME
\* type starts with "image/" and whose size is at most 5 MB, whatever files
\* were offered to handleImageChange, and every file handleSubmit has sent to
\* the storage bucket is such a file.
C17_OnlyValidImagesKeptOrUploaded ==
    \A file \in uploaded \cup UNION {forms[c].formData.imageFile : c \in DOMAIN forms} :
        /\ Len(file.type) >= 2
        /\ file.type[1] = "image"
        /\ file.type[2] = "/"
        /\ file.size <= MaxImageSize

\* C17 witness: handleSubmit has just uploaded the image selected in the form
C17_ImageUploaded ==
    \E ls \in lastSubmit : "upload" \in ls.calls /\ uploaded # {}

\* C18: a handleSubmit call whose amount field parses to NaN or to a number
\* <= 0 makes no network call (no getUser, no upload, no insert, no update),
\* and leaves the ledger, the displayed balances, the uploaded files and the
\* requests in flight as they were.
C18_InvalidAmountSendsNothing ==
    [][\A ls \in lastSubmit' :
          (parseFloat(ls.amount) = NaN \/ ~DecIsPos(parseFloat(ls.amount))) =>
             /\ ls.calls = {}
             /\ ledger_entries' = ledger_entries
             /\ balances' = balances
             /\ uploaded' = uploaded
             /\ \A c \in DOMAIN forms : forms'[c].request = forms[c].request]_vars

\* C18 witness: a submit with amount "0" and an image selected was rejected,
\* and nothing has been uploaded
C18_ZeroAmountRejected ==
    \E ls \in lastSubmit :
        /\ ls.amount = "0"
        /\ ls.calls = {}
        /\ forms[ls.client].formData.imageFile # {}
        /\ uploaded = {}

\* C20: every update of a ledger entry that is in flight succeeds when it is
\* applied, and an entry that has been updated equals, in student_id, type,
\* amount, reference and image_url, the entryData of the update applied to
\* it last: never a mix of two updates.
C20_LastWriterWins ==
    /\ \A c \in DOMAIN forms : \A req \in forms[c].request :
          req.kind = "update" =>
             /\ req.entryData.student_id \in DOMAIN students
             /\ FitsNumeric10_2(req.entryData.amount)
    /\ \A e \in DOMAIN applied :
          /\ e \in DOMAIN ledger_entries
          /\ \A f \in {"student_id", "type", "amount", "reference", "image_url"} :
                ledger_entries[e][f] = applied[e].entryData[f]

\* C20 witness: two updates of entry 1 were in flight together, both have
\* been applied, and the entry holds the values of the second
C20_RacedEditsApplied ==
    /\ 1 \in DOMAIN applied
    /\ applied[1].raced
    /\ ledger_entries[1] = applied[1].entryData
    /\ \A c \in Clients : forms[c].request = {}

\* C19: whatever create-zoom-meeting answered, handleSubmit inserts the
\* session exactly when the insert itself is accepted (the student exists);
\* when the call returned an error or threw, the inserted row has status
\* SCHEDULED and neither a meeting id nor a join or start URL.
C19_ZoomFailureStillSchedules ==
    \A ls \in lastSubmit :
        /\ (ls.inserted # {}) = ls.student_exists
        /\ ls.zoom \in {"error", "throw"} =>
              \A row \in ls.inserted :
                 /\ row.status = "SCHEDULED"
                 /\ row.zoom_meeting_id = NULL
                 /\ row.zoom_join_url = NULL
                 /\ row.zoom_start_url = NULL

\* C19 witness: the meeting call threw and the session is in the table,
\* SCHEDULED and without a meeting
C19_ScheduledAfterThrow ==
    \E ls \in lastSubmit :
        /\ ls.zoom = "throw"
        /\ \E x \in DOMAIN sessions :
              /\ sessions[x] \in ls.inserted
              /\ sessions[x].status = "SCHEDULED"
              /\ sessions[x].zoom_meeting_id = NULL

\* C21: an invocation selects only jobs that are PENDING, on channel WHATSAPP
\* and scheduled no later than its start; from then on it changes the status
\* or last_error of a job, or POSTs a message, only for a job it selected; and
\* it POSTs for a selected job at most once: the job leaves the jobs it still
\* has to process with the POST, and that set only shrinks.
C21_OnlyDuePendingJobsTouched ==
    [][\A i \in Instances :
          /\ (invoked' # invoked /\ inv'[i] # inv[i]) =>
                /\ reminder_jobs' = reminder_jobs
                /\ {job.id : job \in inv'[i].todo} = inv'[i].selected
                /\ \A j \in inv'[i].selected :
                      /\ reminder_jobs[j].status = "PENDING"
                      /\ reminder_jobs[j].channel = "WHATSAPP"
                      /\ reminder_jobs[j].scheduled_for <= clock
          /\ (invoked' = invoked /\ inv'[i] # inv[i]) =>
                /\ inv'[i].selected = inv[i].selected
                /\ inv'[i].todo \subseteq inv[i].todo
                /\ \A j \in DOMAIN reminder_jobs :
                      /\ (reminder_jobs'[j] # reminder_jobs[j] \/ Posts(i, j))
                            => j \in inv[i].selected
                      /\ Posts(i, j) =>
                            /\ j \in {job.id : job \in inv[i].todo}
                            /\ j \notin {job.id : job \in inv'[i].todo}]_vars

\* C21 witness: an invocation that started at time 1 selected only job 3 and
\* has finished; job 1 had ended before it started, and the EMAIL job 4 is
\* still PENDING with no error
C21_LaterInvocationDone ==
    \E i \in Instances :
        /\ inv[i].pc = "done"
        /\ inv[i].selected = {3}
        /\ reminder_jobs[3].status \in TerminalStatuses
        /\ reminder_jobs[1].status \in TerminalStatuses
        /\ reminder_jobs[4].status = "PENDING"
        /\ reminder_jobs[4].last_error = NULL

\* C22: when the Layout treats the signed-in user as approved and renders
\* the children, that user's own approval_<id> entry is "true" or that
\* user's own profile has is_approved = true; an entry of another account
\* is not enough.
C22_OwnApprovalDecides ==
    RendersChildren =>
        \A u \in authSession :
            \/ getApprovalFromStorage(storage, u) = "true"
            \/ u \in DOMAIN profiles /\ profiles[u].is_approved

\* C23: the step in which the signed-in user's session ends leaves no
\* approval_<id> entry of that user in session storage.
C23_CacheClearedOnLogout ==
    [][\A u \in authSession :
          authSession' = {} => getApprovalFromStorage(storage', u) = "null"]_vars

\* C30: while there is no auth session, the Layout does not render the
\* children.
C30_NoContentWithoutSession ==
    authSession = {} => ~RendersChildren

\* C24 as stated: every SESSION_CHARGE entry is strictly negative, every
\* PAYMENT_CONFIRMATION entry strictly positive, and an ADJUSTMENT entry the
\* form writes is negative exactly when the switch was on at submit.
C24_AmountsCarrySign ==
    /\ [](\A e \in DOMAIN ledger_entries :
             /\ ledger_entries[e].type = "SESSION_CHARGE" => ledger_entries[e].amount.d < 0
             /\ ledger_entries[e].type = "PAYMENT_CONFIRMATION" =>
                   DecIsPos(ledger_entries[e].amount))
    /\ [][\A c \in DOMAIN forms :
            (forms[c].request # {} /\ forms'[c].request = {}) =>
               \A e \in DOMAIN ledger_entries' :
                  (/\ e \in DOMAIN ledger_entries => ledger_entries'[e] # ledger_entries[e]
                   /\ ledger_entries'[e].type = "ADJUSTMENT")
                     => (ledger_entries'[e].amount.d < 0
                            <=> forms[c].formData.isAdjustmentNegative)]_vars

\* C24 amended: a SESSION_CHARGE entry is strictly negative, or exactly 0.00
\* and then it is the charge handleComplete inserted (hours times price
\* rounded to the hundredth); a PAYMENT_CONFIRMATION entry is strictly
\* positive; an ADJUSTMENT entry is not zero, and is negative exactly when
\* the switch was on at the submit that wrote it.
C24_SignOrZeroCharge ==
    /\ [](\A e \in DOMAIN ledger_entries :
             /\ ledger_entries[e].type = "SESSION_CHARGE" =>
                   \/ ledger_entries[e].amount.d < 0
                   \/ ledger_entries[e].amount = Zero /\ e \in DOMAIN chargedFor
             /\ ledger_entries[e].type = "PAYMENT_CONFIRMATION" =>
                   DecIsPos(ledger_entries[e].amount)
             /\ ledger_entries[e].type = "ADJUSTMENT" => ledger_entries[e].amount # Zero)
    /\ [][\A c \in DOMAIN forms :
            (forms[c].request # {} /\ forms'[c].request = {}) =>
               \A e \in DOMAIN ledger_entries' :
                  (/\ e \in DOMAIN ledger_entries => ledger_entries'[e] # ledger_entries[e]
                   /\ ledger_entries'[e].type = "ADJUSTMENT")
                     => (ledger_entries'[e].amount.d < 0
                            <=> forms[c].formData.isAdjustmentNegative)]_vars

\* C24 witness: the ledger holds a negative ADJUSTMENT written by the form
\* and a SESSION_CHARGE of 0.00 inserted by handleComplete
C24_ZeroChargeAndNegativeAdjustment ==
    \E e1, e2 \in DOMAIN ledger_entries :
        /\ ledger_entries[e1].type = "ADJUSTMENT"
        /\ ledger_entries[e1].amount.d < 0
        /\ ledger_entries[e2].type = "SESSION_CHARGE"
        /\ ledger_entries[e2].amount = Zero

\* C29: when the update of an edit is applied and the form submitted is the
\* one handleEdit makes of the entry as stored (no field was changed, no new
\* image selected), the stored entry is the same after the update: student_id,
\* type, amount with its sign, reference and image_url.
C29_EditRoundTrip ==
    [][\A c \in DOMAIN forms :
          (forms[c].request # {} /\ forms'[c].request = {}) =>
             \A e \in forms[c].editingEntry \cap DOMAIN ledger_entries :
                forms[c].formData = EditFormData(ledger_entries[e])
                   => /\ e \in DOMAIN applied'
                      /\ ledger_entries'[e] = ledger_entries[e]]_vars

\* C29 witness: the charge handleComplete inserted was opened and submitted
\* as it was, the update has been applied and the entry is as before
C29_ChargeResubmitted ==
    /\ 1 \in DOMAIN applied
    /\ applied[1].entryData.reference = SessionReference(1)
    /\ applied[1].entryData.amount = ChargeAmount(20, 2500)
    /\ ledger_entries[1] = applied[1].entryData
    /\ ledger_entries[1].type = "SESSION_CHARGE"
    /\ ledger_entries[1].image_url = NULL

\* C25: a send-contact-email request is accepted by at most one provider;
\* a parsed body missing to, subject or html gets 400 and no provider call;
\* with the Resend key set the first call is Resend; SMTP is called only
\* with both its user and password set, and only when there is no Resend
\* key or after a Resend call that was not accepted; a 200 response
\* means a provider accepted; a complete request no provider accepted
\* gets 500.
C25_OneProviderTruthfulResponse ==
    \A r \in lastSubmit :
       r.function = "send-contact-email" =>
          LET n == Len(r.calls)
              accepted == {i \in 1..n :
                             \/ /\ r.calls[i].provider = "resend"
                                /\ r.calls[i].outcome \in {"accepted", "unreadable"}
                             \/ /\ r.calls[i].provider = "smtp"
                                /\ r.calls[i].outcome \in {"sent", "quit failed"}}
              complete == r.body.parsed /\ {"to", "subject", "html"} \subseteq r.body.fields
          IN  /\ Cardinality(accepted) <= 1
              /\ r.body.parsed /\ ~complete => r.status = 400 /\ n = 0
              /\ complete /\ env.RESEND_API_KEY # "" =>
                    n >= 1 /\ r.calls[1].provider = "resend"
              /\ \A i \in 1..n :
                    r.calls[i].provider = "smtp" =>
                       /\ env.GMAIL_SMTP_USER # "" /\ env.GMAIL_SMTP_PASS # ""
                       /\ \/ env.RESEND_API_KEY = "" /\ i = 1
                          \/ /\ i = 2
                             /\ r.calls[1].provider = "resend"
                             /\ r.calls[1].outcome \notin {"accepted", "unreadable"}
              /\ r.status = 200 => accepted # {}
              /\ complete /\ accepted = {} => r.status = 500

\* C26: create-zoom-meeting answers 401 to a request with no user, 400 to a
\* caller whose profile lacks a Zoom column and 400 to a parsed body lacking
\* start_time, duration or topic, each time without a token or meeting
\* request; every token request carries the three columns of the caller's
\* own profile.
C26_ZoomOnlyForCompleteCallers ==
    \A r \in lastSubmit :
       r.function = "create-zoom-meeting" =>
          LET own == {profiles[u] : u \in r.caller}
              lacking == \E p \in own, col \in ZoomColumns : p[col] = NULL
              incomplete == r.body.parsed
                            /\ ~({"start_time", "duration", "topic"} \subseteq r.body.fields)
          IN  /\ r.caller = {} => r.status = 401 /\ r.calls = <<>>
              /\ lacking => r.status = 400 /\ r.calls = <<>>
              /\ r.caller # {} /\ incomplete => r.status = 400 /\ r.calls = <<>>
              /\ \A i \in 1..Len(r.calls) :
                    /\ r.calls[i].provider = "zoom token" => r.calls[i].credentials = own
                    /\ r.calls[i].provider = "zoom meeting" =>
                          i = 2 /\ r.calls[1].provider = "zoom token"
                                /\ r.calls[1].outcome = "ok"

\* C26 witness: user a, whose profile lacks a Zoom column, asked for a
\* meeting with a complete body and got 400 with no request to Zoom, while
\* user b's profile holds all three
C26_IncompleteCallerRefused ==
    \E r \in lastSubmit :
       /\ r.function = "create-zoom-meeting"
       /\ r.caller = {"a"}
       /\ \E col \in ZoomColumns : profiles["a"][col] = NULL
       /\ \A col \in ZoomColumns : profiles["b"][col] # NULL
       /\ r.body.parsed /\ r.body.fields = {"start_time", "duration", "topic"}
       /\ r.status = 400
       /\ r.calls = <<>>

\* C28: a handleComplete call that updated the session and then found the
\* student missing from its loaded list, or got an error from the ledger
\* insert, leaves the session COMPLETED with no SESSION_CHARGE entry; and no
\* later step inserts a charge for a session that is COMPLETED without one.
C28_CompletedWithoutChargeForGood ==
    /\ [](\A lc \in lastComplete :
             /\ lc.fault # "sessionError"
             /\ ~lc.existed
             /\ ~lc.found \/ lc.fault = "ledgerError"
             => /\ lc.inserted = {}
                /\ lc.sessionId \in DOMAIN sessions =>
                      /\ sessions[lc.sessionId].status = "COMPLETED"
                      /\ ExistingEntries(sessions[lc.sessionId].student_id,
                                         lc.sessionId) = {})
    /\ [][\A x \in DOMAIN sessions :
             /\ sessions[x].status = "COMPLETED"
             /\ ExistingEntries(sessions[x].student_id, x) = {}
             => \A e \in DOMAIN ledger_entries' \ DOMAIN ledger_entries :
                   ledger_entries'[e].reference # SessionReference(x)]_vars

\* C27: when the handleComplete calls of two tabs for the same session have
\* both ended, each having read no existing charge, updated the session and
\* got no error from its insert, each has inserted a SESSION_CHARGE entry:
\* the session has two charges, both counted in the student's balance.
C27_InterleavedCallsChargeTwice ==
    \A t1, t2 \in DOMAIN inv :
       /\ t1 # t2
       /\ inv[t1].pc = "done" /\ inv[t2].pc = "done"
       /\ inv[t1].sessionId = inv[t2].sessionId
       /\ \A t \in {t1, t2} :
             /\ inv[t].existing = {}
             /\ inv[t].fault = "none"
             /\ inv[t].session.student_id \in DOMAIN inv[t].students
       => LET s == inv[t1].session.student_id
              both == inv[t1].inserted \cup inv[t2].inserted
          IN  /\ Cardinality(both) = 2
              /\ both \subseteq DOMAIN ledger_entries
              /\ \A e \in both :
                    /\ ledger_entries[e].type = "SESSION_CHARGE"
                    /\ ledger_entries[e].student_id = s
                    /\ ledger_entries[e].reference = SessionReference(inv[t1].sessionId)
              /\ DOMAIN ledger_entries = both =>
                    get_student_balance(s).data
                       = DecAdd(ledger_entries[entrySeq].amount,
                                ledger_entries[entrySeq - 1].amount)

\* C27 witness: both tabs completed session 1 of a student charged 25.00
\* an hour, 90 minutes; the ledger holds two charges of 37.50 for it and
\* the balance is -75.00
C27_TwoChargesForOneSession ==
    /\ DOMAIN inv = Tabs
    /\ \A t \in Tabs : inv[t].pc = "done" /\ inv[t].sessionId = 1 /\ inv[t].existing = {}
    /\ Cardinality(ExistingEntries("s1", 1)) = 2
    /\ \A e \in ExistingEntries("s1", 1) : ledger_entries[e].amount = Dec(-38, 50)
    /\ get_student_balance("s1").data = Dec(-75, 0)
====
